---- MODULE Spec2Model ----
(***************************************************************************)
(* State-machine model of src/model/ufc_nn.c: the Context Tracker          *)
(* (MatchContext), the Feature Engineer (compute_features), the Trainer    *)
(* (train), the Segment Orchestrator (train_models_by_class), model        *)
(* persistence (save_model / load_model) and the callers in main.          *)
(*                                                                         *)
(* C strings are sequences of unsigned char codes (ASCII), so that strcmp, *)
(* tolower and isalnum are computed as libc computes them.                 *)
(* Real-valued quantities are exact rationals <<num, den>>; the one         *)
(* transcendental term, prior_win_rate * log1p(total), is kept symbolic.   *)
(***************************************************************************)
EXTENDS Integers, Sequences, FiniteSets, TLC

VARIABLES
    ctx,          \* MatchContext: the Context Tracker of the operation in progress
    applied,      \* the observations handed to update_context_with_result so far
    queries,      \* number of compute_features calls made on ctx so far
    features,     \* the feature vector written by the last compute_features call
    stale_ref,    \* the last call used r1 after a realloc had moved the record store
    tr,           \* one call of train or evaluate_model and its caller in main
    lk,           \* two train calls side by side: on a prefix and on the whole sequence
    ep,           \* the epoch loop of train
    ld,           \* one load_model call
    orch,         \* one train_models_by_class call
    pr,           \* main choosing its Model, and the prompt loop of predict_interactive
    ev,           \* the threshold search of evaluate_model
    nn,           \* the data preparation of train and the forward pass on it
    io,           \* save_model followed by load_model on one path
    fx,           \* one compute_features call, with or without a Context Tracker
    lp,           \* the epoch loop of train with a validation set of any size
    net,          \* the members of the Model through training and inference
    sh,           \* the training and validation arrays through the epoch loop
    infer,        \* one infer_latest_weight_class call
    keep_running  \* volatile sig_atomic_t keep_running

ctxVars == <<ctx, applied, queries, features, stale_ref>>

lastVars == <<lp, net, sh, infer>>

laterVars == <<pr, ev, nn, io, fx, lastVars>>

vars == <<ctx, applied, queries, features, stale_ref, tr, lk, ep, ld, orch, pr, ev, nn, io,
          fx, lp, net, sh, infer, keep_running>>

\* value of the variables of the operations a specification does not run
Idle == [pc |-> "idle"]

LastIdle == lp = Idle /\ net = Idle /\ sh = Idle /\ infer = Idle

LaterIdle == pr = Idle /\ ev = Idle /\ nn = Idle /\ io = Idle /\ fx = Idle /\ LastIdle

(***************************************************************************)
(* Bounds of the model                                                     *)
(***************************************************************************)
\* most calls (update_context_with_result + compute_features) explored by SpecCtx
MaxCalls == 3
\* records of entities outside the tracked names already in the store at Init
Background == 126

(***************************************************************************)
(* libc on char-code strings                                               *)
(***************************************************************************)
Min(S) == CHOOSE x \in S : \A y \in S : x <= y

Max(S) == CHOOSE x \in S : \A y \in S : x >= y

Abs(x) == IF x < 0 THEN -x ELSE x

RECURSIVE Gcd(_, _)
Gcd(a, b) == IF b = 0 THEN a ELSE Gcd(b, a % b)

RECURSIVE strcmp(_, _)
strcmp(a, b) ==
    IF a = <<>> /\ b = <<>> THEN 0
    ELSE IF a = <<>> THEN -1
    ELSE IF b = <<>> THEN 1
    ELSE IF Head(a) < Head(b) THEN -1
    ELSE IF Head(a) > Head(b) THEN 1
    ELSE strcmp(Tail(a), Tail(b))

tolower(ch) == IF ch >= 65 /\ ch <= 90 THEN ch + 32 ELSE ch

isalnum(ch) ==
    \/ (ch >= 48 /\ ch <= 57)
    \/ (ch >= 65 /\ ch <= 90)
    \/ (ch >= 97 /\ ch <= 122)

RECURSIVE name_equals_ci(_, _)
name_equals_ci(a, b) ==
    IF a = <<>> \/ b = <<>> THEN a = <<>> /\ b = <<>>
    ELSE IF tolower(Head(a)) # tolower(Head(b)) THEN FALSE
    ELSE name_equals_ci(Tail(a), Tail(b))

(***************************************************************************)
(* Exact arithmetic for the real-valued features                           *)
(***************************************************************************)
Rat(n, d) ==
    LET g == Gcd(Abs(n), Abs(d))
        s == IF d < 0 THEN -1 ELSE 1
    IN  <<(s * n) \div g, (s * d) \div g>>

RatSub(x, y) == Rat(x[1] * y[2] - y[1] * x[2], x[2] * y[2])

RatNeg(x) == <<-x[1], x[2]>>

RatInt(n) == <<n, 1>>

(***************************************************************************)
(* Context Tracker: MatchContext, FighterRecord, HeadToHeadRecord          *)
(***************************************************************************)
\* init_context: memset(ctx, 0).  fighter_count counts every record of the
\* store; `fighters` lists, in store order, the records of the tracked names
\* (the other fighter_count - Len(fighters) records belong to entities that
\* no lookup of a tracked name matches).
init_context ==
    [fighters |-> <<>>, fighter_count |-> 0, fighter_cap |-> 0,
     h2h |-> <<>>, h2h_count |-> 0, h2h_cap |-> 0]

\* ensure_fighter_cap: capacity doubling, 128 first
ensure_fighter_cap(c) ==
    IF c.fighter_count < c.fighter_cap THEN c
    ELSE [c EXCEPT !.fighter_cap = IF @ = 0 THEN 128 ELSE @ * 2]

ensure_h2h_cap(c) ==
    IF c.h2h_count < c.h2h_cap THEN c
    ELSE [c EXCEPT !.h2h_cap = IF @ = 0 THEN 128 ELSE @ * 2]

\* index of the first record with that exact name and weight class, 0 if none
find_fighter_record(c, name, weight_class) ==
    LET hits == {i \in 1..Len(c.fighters) :
                    /\ strcmp(c.fighters[i].name, name) = 0
                    /\ strcmp(c.fighters[i].weight_class, weight_class) = 0}
    IN  IF hits = {} THEN 0 ELSE Min(hits)

\* get_or_add_fighter: the record's index, the store after the call, and
\* whether the call reallocated an existing store (realloc of a non-NULL block)
get_or_add_fighter(c, name, weight_class) ==
    LET k == find_fighter_record(c, name, weight_class)
        c1 == ensure_fighter_cap(c)
        record == [name |-> name, weight_class |-> weight_class,
                   wins |-> 0, losses |-> 0, total |-> 0]
    IN  IF k # 0
        THEN [ctx |-> c, idx |-> k, grew |-> FALSE]
        ELSE [ctx |-> [c1 EXCEPT !.fighters = Append(@, record),
                                 !.fighter_count = @ + 1],
              idx |-> Len(c.fighters) + 1,
              grew |-> (c1.fighter_cap # c.fighter_cap) /\ c.fighter_cap # 0]

\* get_or_add_h2h keyed by the names in the order given (no canonical order)
get_or_add_h2h_as_given(c, fighter1, fighter2, weight_class) ==
    LET hits == {i \in 1..Len(c.h2h) :
                    /\ strcmp(c.h2h[i].name_a, fighter1) = 0
                    /\ strcmp(c.h2h[i].name_b, fighter2) = 0
                    /\ strcmp(c.h2h[i].weight_class, weight_class) = 0}
        c1 == ensure_h2h_cap(c)
        record == [name_a |-> fighter1, name_b |-> fighter2, weight_class |-> weight_class,
                   wins_a |-> 0, wins_b |-> 0, total |-> 0]
    IN  IF hits # {}
        THEN [ctx |-> c, idx |-> Min(hits)]
        ELSE [ctx |-> [c1 EXCEPT !.h2h = Append(@, record), !.h2h_count = @ + 1],
              idx |-> Len(c.h2h) + 1]

\* get_or_add_h2h: the pair is keyed by (left, right) in strcmp order
get_or_add_h2h(c, fighter1, fighter2, weight_class) ==
    LET swap == strcmp(fighter1, fighter2) > 0
        left == IF swap THEN fighter2 ELSE fighter1
        right == IF swap THEN fighter1 ELSE fighter2
        hits == {i \in 1..Len(c.h2h) :
                    /\ strcmp(c.h2h[i].name_a, left) = 0
                    /\ strcmp(c.h2h[i].name_b, right) = 0
                    /\ strcmp(c.h2h[i].weight_class, weight_class) = 0}
        c1 == ensure_h2h_cap(c)
        record == [name_a |-> left, name_b |-> right, weight_class |-> weight_class,
                   wins_a |-> 0, wins_b |-> 0, total |-> 0]
    IN  IF hits # {}
        THEN [ctx |-> c, idx |-> Min(hits)]
        ELSE [ctx |-> [c1 EXCEPT !.h2h = Append(@, record), !.h2h_count = @ + 1],
              idx |-> Len(c.h2h) + 1]

\* update_context_with_result.  r1 is taken before the second get_or_add_fighter;
\* when that call reallocates the store and realloc returns another block
\* (`moved`), r1 points into the freed block and the three writes through it
\* never reach the live record.
update_context_with_result(c, fight, moved) ==
    LET g1 == get_or_add_fighter(c, fight.fighter1, fight.weight_class)
        g2 == get_or_add_fighter(g1.ctx, fight.fighter2, fight.weight_class)
        g3 == get_or_add_h2h(g2.ctx, fight.fighter1, fight.fighter2, fight.weight_class)
        r1 == g1.idx
        r2 == g2.idx
        h == g3.idx
        r1_dangling == g2.grew /\ moved
        c3 == g3.ctx
        f1won == fight.label = 1
        f2won == fight.label = 0
        w1(rec) == [rec EXCEPT !.total = @ + 1,
                               !.wins = IF f1won THEN @ + 1 ELSE @,
                               !.losses = IF f2won THEN @ + 1 ELSE @]
        w2(rec) == [rec EXCEPT !.total = @ + 1,
                               !.wins = IF f2won THEN @ + 1 ELSE @,
                               !.losses = IF f1won THEN @ + 1 ELSE @]
        fs1 == IF r1_dangling THEN c3.fighters
               ELSE [c3.fighters EXCEPT ![r1] = w1(@)]
        fs2 == [fs1 EXCEPT ![r2] = w2(@)]
        hrec == c3.h2h[h]
        a_is_f1 == strcmp(hrec.name_a, fight.fighter1) = 0
        a_is_f2 == strcmp(hrec.name_a, fight.fighter2) = 0
        hnew == [hrec EXCEPT
                    !.total = @ + 1,
                    !.wins_a = IF (f1won /\ a_is_f1) \/ (f2won /\ a_is_f2)
                               THEN @ + 1 ELSE @,
                    !.wins_b = IF (f1won /\ ~a_is_f1) \/ (f2won /\ ~a_is_f2)
                               THEN @ + 1 ELSE @]
    IN  [ctx |-> [c3 EXCEPT !.fighters = fs2, !.h2h = [@ EXCEPT ![h] = hnew]],
         r1_dangling |-> r1_dangling]

(***************************************************************************)
(* Feature Engineer                                                        *)
(***************************************************************************)
\* a FighterRecord as seen through the pointer compute_features holds
NullRecord == [null |-> TRUE, wins |-> 0, losses |-> 0, total |-> 0]

RecordView(rec) ==
    [null |-> FALSE, wins |-> rec.wins, losses |-> rec.losses, total |-> rec.total]

NullH2H ==
    [null |-> TRUE, name_a |-> <<>>, name_b |-> <<>>, wins_a |-> 0, wins_b |-> 0, total |-> 0]

H2HView(rec) ==
    [null |-> FALSE, name_a |-> rec.name_a, name_b |-> rec.name_b,
     wins_a |-> rec.wins_a, wins_b |-> rec.wins_b, total |-> rec.total]

\* prior_win_rate: Laplace-smoothed (wins + 1) / (total + 2), 0.5 without history
prior_win_rate(record) ==
    IF record.null \/ record.total = 0 THEN Rat(1, 2)
    ELSE Rat(record.wins + 1, record.total + 2)

\* weighted_score: prior_win_rate * log1p(total), kept as the term <<n, d, total>>
\* (<<0, 1, 0>> is 0.0)
weighted_score(record) ==
    IF record.null \/ record.total = 0 THEN <<0, 1, 0>>
    ELSE <<prior_win_rate(record)[1], prior_win_rate(record)[2], record.total>>

\* wscore1 - wscore2 of two such terms; x - x is 0.0
ScoreSub(x, y) == IF x = y THEN <<<<0, 1, 0>>, <<0, 1, 0>>>> ELSE <<x, y>>

head_to_head_bias(record, fighter1, fighter2) ==
    IF record.null \/ record.total = 0 THEN RatInt(0)
    ELSE LET fwd == strcmp(record.name_a, fighter1) = 0 /\ strcmp(record.name_b, fighter2) = 0
             rev == strcmp(record.name_a, fighter2) = 0 /\ strcmp(record.name_b, fighter1) = 0
             f1_wins == IF fwd THEN record.wins_a ELSE IF rev THEN record.wins_b ELSE 0
             f2_wins == IF fwd THEN record.wins_b ELSE IF rev THEN record.wins_a ELSE 0
         IN  Rat(f1_wins - f2_wins, record.total)

\* The 12 raw statistics of one side, in apply_fighter_stats order:
\* height reach age sig_pm sig_acc sig_abs sig_def td_avg td_acc td_def sub_avg weight
\* compute_features: features[1..20] are FEAT_HEIGHT_DELTA .. FEAT_H2H_DELTA.
\* `has_ctx` is ctx != NULL.  r1 is read after the second get_or_add_fighter:
\* when that call moved the store (`moved`), the read goes to the freed block
\* and may return anything (`junk`).
compute_features(fight, c, has_ctx, moved, junk) ==
    LET g1 == get_or_add_fighter(c, fight.fighter1, fight.weight_class)
        g2 == get_or_add_fighter(g1.ctx, fight.fighter2, fight.weight_class)
        g3 == get_or_add_h2h(g2.ctx, fight.fighter1, fight.fighter2, fight.weight_class)
        c3 == IF has_ctx THEN g3.ctx ELSE c
        r1_dangling == has_ctx /\ g2.grew /\ moved
        r1 == IF ~has_ctx THEN NullRecord
              ELSE IF r1_dangling THEN junk
              ELSE RecordView(c3.fighters[g1.idx])
        r2 == IF ~has_ctx THEN NullRecord ELSE RecordView(c3.fighters[g2.idx])
        h == IF ~has_ctx THEN NullH2H ELSE H2HView(c3.h2h[g3.idx])
        a == fight.s1
        b == fight.s2
        f1_strike_net == a[4] - a[6]
        f2_strike_net == b[4] - b[6]
        f1_grapple == a[8] * a[9] + a[11]
        f2_grapple == b[8] * b[9] + b[11]
        style1 == IF a[11] >= 1 THEN 1 ELSE 0
        style2 == IF b[11] >= 1 THEN 1 ELSE 0
        vec == [j \in 1..20 |->
                  IF j <= 12 THEN RatInt(a[j] - b[j])
                  ELSE IF j = 13 THEN RatInt(f1_strike_net - f2_strike_net)
                  ELSE IF j = 14 THEN RatInt(f1_grapple - f2_grapple)
                  ELSE IF j = 15 THEN RatSub(prior_win_rate(r1), prior_win_rate(r2))
                  ELSE IF j = 16 THEN RatInt(r1.wins - r2.wins)
                  ELSE IF j = 17 THEN RatInt(r1.total - r2.total)
                  ELSE IF j = 18 THEN ScoreSub(weighted_score(r1), weighted_score(r2))
                  ELSE IF j = 19 THEN RatInt(style1 - style2)
                  ELSE head_to_head_bias(h, fight.fighter1, fight.fighter2)]
    IN  [ctx |-> c3, features |-> vec, r1_dangling |-> r1_dangling]

(***************************************************************************)
(* Inputs of the Context Tracker specification                             *)
(***************************************************************************)
NameA == <<65, 108>>      \* "Al"

NameB == <<66, 111>>      \* "Bo"

ClassL == <<76, 87>>      \* "LW"

ClassF == <<70, 87>>      \* "FW"

StatsLo == <<170, 170, 30, 3, 1, 2, 1, 1, 1, 1, 0, 155>>

StatsHi == <<180, 185, 25, 5, 1, 3, 1, 2, 1, 1, 1, 155>>

StatsOf(name) == IF name = NameA THEN StatsHi ELSE StatsLo

Fight(date, wc, f1, f2, label) ==
    [event_date |-> date, weight_class |-> wc, fighter1 |-> f1, fighter2 |-> f2,
     label |-> label, s1 |-> StatsOf(f1), s2 |-> StatsOf(f2)]

\* matchups between two distinct entities with a resolved label (load_ufc_data
\* keeps only label >= 0 and a non-empty weight class)
CtxFights ==
    {Fight(<<49>>, p[1], p[2], p[3], p[4]) :
        p \in {q \in {ClassL, ClassF} \X {NameA, NameB} \X {NameA, NameB} \X {0, 1} :
                 q[2] # q[3]}}

\* what a read through a dangling FighterRecord pointer may return besides the
\* record's old contents
JunkRecords ==
    {[null |-> FALSE, wins |-> 0, losses |-> 0, total |-> 0],
     [null |-> FALSE, wins |-> 3, losses |-> 1, total |-> 4]}

\* One call of update_context_with_result or compute_features adds at most two
\* records, so it can realloc an existing record store only when fewer than
\* two slots are free; only then has realloc an outcome to choose (the block
\* moved or not) and the read through the stale r1 a value to choose.
may_realloc(c) == c.fighter_cap # 0 /\ c.fighter_count + 2 > c.fighter_cap

realloc_moves(c) == IF may_realloc(c) THEN BOOLEAN ELSE {FALSE}

stale_reads(c) == IF may_realloc(c) THEN JunkRecords ELSE {NullRecord}

\* smallest capacity ensure_fighter_cap reaches for n records
RECURSIVE CapFor(_, _)
CapFor(n, cap) == IF n <= cap THEN cap ELSE CapFor(n, IF cap = 0 THEN 128 ELSE cap * 2)

\* a store that already holds n records of other entities
BackgroundContext(n) ==
    [init_context EXCEPT !.fighter_count = n, !.fighter_cap = CapFor(n, 0)]

NoFeatures == [j \in 1..20 |-> RatInt(0)]

(***************************************************************************)
(* SpecCtx: any sequence of calls on one Context Tracker                   *)
(***************************************************************************)
InitCtx ==
    /\ ctx \in {BackgroundContext(n) : n \in {0, Background, Background + 1}}
    /\ applied = <<>>
    /\ queries = 0
    /\ features = NoFeatures
    /\ stale_ref = FALSE
    /\ tr = Idle /\ lk = Idle /\ ep = Idle /\ ld = Idle /\ orch = Idle /\ LaterIdle
    /\ keep_running = TRUE

\* update_context_with_result(&ctx, &fight), as predict_interactive and
\* analyze_matchup call it for every observation of the history
RecordOutcome ==
    /\ Len(applied) + queries < MaxCalls
    /\ \E fight \in CtxFights, moved \in realloc_moves(ctx) :
          LET u == update_context_with_result(ctx, fight, moved)
          IN  /\ ctx' = u.ctx
              /\ stale_ref' = u.r1_dangling
              /\ applied' = Append(applied, fight)
    /\ UNCHANGED <<queries, features, tr, lk, ep, ld, orch, laterVars, keep_running>>

\* compute_features(&query, features, &ctx)
Query ==
    /\ Len(applied) + queries < MaxCalls
    /\ \E fight \in CtxFights, has_ctx \in BOOLEAN,
          moved \in realloc_moves(ctx), junk \in stale_reads(ctx) :
          LET q == compute_features(fight, ctx, has_ctx, moved, junk)
          IN  /\ ctx' = q.ctx
              /\ features' = q.features
              /\ stale_ref' = q.r1_dangling
    /\ queries' = queries + 1
    /\ UNCHANGED <<applied, tr, lk, ep, ld, orch, laterVars, keep_running>>

NextCtx == RecordOutcome \/ Query

SpecCtx == InitCtx /\ [][NextCtx]_vars

(***************************************************************************)
(* Claims on the Context Tracker                                           *)
(***************************************************************************)
Winner(fight) == IF fight.label = 1 THEN fight.fighter1 ELSE fight.fighter2

TookPart(fight, name, wc) ==
    fight.weight_class = wc /\ (fight.fighter1 = name \/ fight.fighter2 = name)

Between(fight, a, b, wc) ==
    fight.weight_class = wc /\ {fight.fighter1, fight.fighter2} = {a, b}

Count(P(_), seq) == Cardinality({i \in 1..Len(seq) : P(seq[i])})

\* C3: after update_context_with_result has been applied to a sequence of
\* observations, every record (name, segment) has total equal to the number
\* of those observations of the segment the entity took part in, and
\* wins + losses = total whenever total > 0.
C3_TotalsMatchObservations ==
    \A i \in 1..Len(ctx.fighters) :
        LET r == ctx.fighters[i]
            InSeg(f) == TookPart(f, r.name, r.weight_class)
        IN  /\ r.total = Count(InSeg, applied)
            /\ (r.total > 0 => r.wins + r.losses = r.total)

\* C4: get_or_add_h2h(a, b, s) and get_or_add_h2h(b, a, s) resolve to the same
\* record; the tracker holds at most one pair record per unordered pair and
\* segment; every win is credited to the winner's side of that record
\* whichever order the observation named the two entities in.
C4_PairRecordCanonical ==
    /\ \A f \in CtxFights :
          get_or_add_h2h(ctx, f.fighter1, f.fighter2, f.weight_class).idx
            = get_or_add_h2h(ctx, f.fighter2, f.fighter1, f.weight_class).idx
    /\ \A i, j \in 1..Len(ctx.h2h) :
          (/\ {ctx.h2h[i].name_a, ctx.h2h[i].name_b} = {ctx.h2h[j].name_a, ctx.h2h[j].name_b}
           /\ ctx.h2h[i].weight_class = ctx.h2h[j].weight_class) => i = j
    /\ \A i \in 1..Len(ctx.h2h) :
          LET r == ctx.h2h[i]
              Met(f) == Between(f, r.name_a, r.name_b, r.weight_class)
              WonByA(f) == Met(f) /\ Winner(f) = r.name_a
              WonByB(f) == Met(f) /\ Winner(f) = r.name_b
          IN  /\ r.total = Count(Met, applied)
              /\ r.wins_a = Count(WonByA, applied)
              /\ r.wins_b = Count(WonByB, applied)

\* a pair record that took wins for both sides from observations naming the
\* pair in both orders
C4_Witness ==
    \E i \in 1..Len(ctx.h2h) :
        /\ ctx.h2h[i].wins_a >= 1
        /\ ctx.h2h[i].wins_b >= 1
        /\ \E m, n \in 1..Len(applied) :
              /\ applied[m].weight_class = ctx.h2h[i].weight_class
              /\ applied[n].weight_class = ctx.h2h[i].weight_class
              /\ applied[m].fighter1 = applied[n].fighter2
              /\ applied[m].fighter2 = applied[n].fighter1

(***************************************************************************)
(* Trainer: train, evaluate_model and the callers in main                  *)
(***************************************************************************)
\* largest num_samples explored by SpecTrain
MaxTrainN == 6

\* event_date of the k-th observation in a calendar of one-character dates
Date(k) == <<48 + k>>

\* qsort(fights, n, compare_fight_date): every ordering of the array in which
\* strcmp(event_date) never decreases (qsort is not stable: observations of
\* one date may come out in any order)
RECURSIVE qsort(_)
qsort(fights) ==
    IF Len(fights) = 0 THEN {<<>>}
    ELSE LET n == Len(fights)
             first == {k \in 1..n :
                         \A j \in 1..n :
                            strcmp(fights[k].event_date, fights[j].event_date) <= 0}
             without(k) == [j \in 1..(n - 1) |-> IF j < k THEN fights[j] ELSE fights[j + 1]]
         IN  UNION {UNION {{<<fights[k]>> \o rest : rest \in qsort(others)} :
                              others \in {without(k)}} : k \in first}

\* C integer division truncates toward zero
cdiv(a, b) == IF a >= 0 THEN a \div b ELSE -((-a) \div b)

\* the chronological split: 80% of the observations, at least 1, at most n - 1
split_train_base_count(num_samples) ==
    LET t0 == cdiv(num_samples * 8, 10)
        t1 == IF t0 < 1 THEN 1 ELSE t0
    IN  IF t1 >= num_samples THEN num_samples - 1 ELSE t1

\* malloc that grants a request of any size
malloc_any_size(count) == {"NULL", "block"}

\* malloc((size_t)count * size): the results the call can have.  Any request
\* can fail.  A negative count converts to 2^64 - |count|, the product wraps to
\* 2^64 - |count| * size, which is above PTRDIFF_MAX, and malloc refuses it.
\* malloc(0) returns NULL or a unique pointer (implementation-defined).
malloc(count) == IF count >= 0 THEN {"NULL", "block"} ELSE {"NULL"}

\* the feature loop with every observation's outcome recorded
in_any_subset(i, train_base_count) == TRUE

\* the feature loop updates the tracker with observation i only below the
\* train/validation boundary
in_history(i, train_base_count) == i < train_base_count

\* the loop body with the two calls in the other order: the outcome is
\* recorded before the features are computed
feature_row_update_first(c, fight, i, train_base_count, moved, junk, moved_again) ==
    CHOOSE r \in UNION {{[given |-> u.ctx, ctx |-> q.ctx, features |-> q.features,
                          updated |-> TRUE,
                          r1_dangling |-> q.r1_dangling \/ u.r1_dangling] :
                            q \in {compute_features(fight, u.ctx, TRUE, moved, junk)}} :
                         u \in {update_context_with_result(c, fight, moved_again)}} : TRUE

\* the body of for (i = 0; i < num_samples; i++), the same statements in train
\* and in evaluate_model: compute_features(&fights[i], raw_features[i], &ctx),
\* labels[i], then update_context_with_result(&ctx, &fights[i]) iff
\* i < train_base_count.  `given` is the tracker compute_features was handed.
\* (Each of the two sets below has one element: the call's result.)
feature_row(c, fight, i, train_base_count, moved, junk, moved_again) ==
    CHOOSE r \in UNION {{[given |-> c, ctx |-> u.ctx, features |-> q.features,
                          updated |-> in_history(i, train_base_count),
                          r1_dangling |-> q.r1_dangling \/ u.r1_dangling] :
                            u \in {IF in_history(i, train_base_count)
                                   THEN update_context_with_result(q.ctx, fight, moved_again)
                                   ELSE [ctx |-> q.ctx, r1_dangling |-> FALSE]}} :
                         q \in {compute_features(fight, c, TRUE, moved, junk)}} : TRUE

\* Model: what the weights are, how many rows the normalization statistics
\* were computed from (-1: never computed), num_trained_samples
ZeroModel == [w |-> "zero", norm_count |-> -1, num_trained_samples |-> 0]

\* init_model: He-initialised weights, zero biases and velocities
init_model(m) == [w |-> "he_init", norm_count |-> -1, num_trained_samples |-> 0]

TrainNames == <<NameA, NameB>>

\* the matchups a dataset of SpecTrain is made of: Al against Bo, won by Al
\* (label 1) or by Bo (label 0)
TrainMatchups == {<<1, 2, 1>>, <<1, 2, 0>>}

\* date of the k-th of n observations as the dataset file lists them
DateAt(order, k, n) ==
    IF order = "ascending" THEN Date(k)
    ELSE IF order = "descending" THEN Date(n + 1 - k)
    ELSE Date(IF k <= 2 THEN 1 ELSE k)

DateOrders == {"ascending", "descending", "tied"}

TrainDatasets ==
    UNION {{[k \in 1..n |-> Fight(DateAt(order, k, n), ClassL,
                                   TrainNames[p[k][1]], TrainNames[p[k][2]], p[k][3])] :
               p \in [1..n -> TrainMatchups], order \in DateOrders} : n \in 0..MaxTrainN}

(***************************************************************************)
(* SpecTrain: main's init_model; train; save_model, or one evaluate_model  *)
(***************************************************************************)
otherVars == <<lk, ep, ld, orch, laterVars>>

InitTrain ==
    /\ ctx = init_context
    /\ applied = <<>>
    /\ queries = 0
    /\ features = NoFeatures
    /\ stale_ref = FALSE
    /\ keep_running = TRUE
    /\ lk = Idle /\ ep = Idle /\ ld = Idle /\ orch = Idle /\ LaterIdle
    /\ \E fights \in TrainDatasets, routine \in {"train", "evaluate_model"} :
          tr = [routine |-> routine,
                pc |-> IF routine = "train" THEN "main" ELSE "split",
                fights |-> fights, num_samples |-> Len(fights),
                train_base_count |-> 0, val_count |-> 0, i |-> 0,
                raw_features |-> <<>>, given |-> init_context,
                m |-> IF routine = "train" THEN ZeroModel
                      ELSE [w |-> "trained", norm_count |-> 2, num_trained_samples |-> 1],
                epochs_entered |-> FALSE, error |-> "none", saved |-> FALSE]

\* handle_sigint
train_sigint ==
    /\ tr.pc \notin {"exit", "idle"}
    /\ keep_running
    /\ keep_running' = FALSE
    /\ UNCHANGED <<ctxVars, tr, otherVars>>

\* main: init_model(&model), then the call of train
main_init_model ==
    /\ tr.pc = "main"
    /\ tr' = [tr EXCEPT !.m = init_model(@), !.pc = "split"]
    /\ UNCHANGED <<ctxVars, otherVars, keep_running>>

\* qsort and the chronological split, the same statements in train and in
\* evaluate_model
chronological_split(t, sorted) ==
    LET train_base_count == split_train_base_count(t.num_samples)
        val_count == t.num_samples - train_base_count
    IN  [t EXCEPT !.fights = sorted,
                  !.train_base_count = train_base_count,
                  !.val_count = val_count,
                  !.error = IF val_count < 1 THEN "split" ELSE @,
                  !.pc = IF val_count < 1 THEN "returned" ELSE "alloc"]

train_split ==
    /\ tr.pc = "split" /\ tr.routine = "train"
    /\ \E sorted \in qsort(tr.fights) : tr' = chronological_split(tr, sorted)
    /\ UNCHANGED <<ctxVars, otherVars, keep_running>>

evaluate_split ==
    /\ tr.pc = "split" /\ tr.routine = "evaluate_model"
    /\ \E sorted \in qsort(tr.fights) : tr' = chronological_split(tr, sorted)
    /\ UNCHANGED <<ctxVars, otherVars, keep_running>>

\* train: raw_features, then labels, then init_context(&train_ctx)
train_alloc ==
    /\ tr.pc = "alloc" /\ tr.routine = "train"
    /\ \E raw_features \in malloc(tr.num_samples), labels \in malloc(tr.num_samples) :
          tr' = IF raw_features = "NULL"
                THEN [tr EXCEPT !.error = "raw_features", !.pc = "returned"]
                ELSE IF labels = "NULL"
                THEN [tr EXCEPT !.error = "labels", !.pc = "returned"]
                ELSE [tr EXCEPT !.i = 0, !.pc = "rows"]
    /\ ctx' = IF tr'.pc = "rows" THEN init_context ELSE ctx
    /\ UNCHANGED <<applied, queries, features, stale_ref, otherVars, keep_running>>

\* evaluate_model: both buffers, then init_context(&ctx)
evaluate_alloc ==
    /\ tr.pc = "alloc" /\ tr.routine = "evaluate_model"
    /\ \E raw_features \in malloc(tr.num_samples), labels \in malloc(tr.num_samples) :
          tr' = IF raw_features = "NULL" \/ labels = "NULL"
                THEN [tr EXCEPT !.error = "evaluation_buffers", !.pc = "returned"]
                ELSE [tr EXCEPT !.i = 0, !.pc = "rows"]
    /\ ctx' = IF tr'.pc = "rows" THEN init_context ELSE ctx
    /\ UNCHANGED <<applied, queries, features, stale_ref, otherVars, keep_running>>

\* one iteration of the feature loop
feature_loop(routine) ==
    /\ tr.pc = "rows" /\ tr.routine = routine
    /\ tr.i < tr.num_samples
    /\ \E fight \in {tr.fights[tr.i + 1]},
          moved \in realloc_moves(ctx), junk \in stale_reads(ctx),
          moved_again \in realloc_moves(ctx) :
          \E r \in {feature_row(ctx, fight, tr.i, tr.train_base_count,
                                moved, junk, moved_again)} :
             /\ ctx' = r.ctx
             /\ features' = r.features
             /\ stale_ref' = r.r1_dangling
             /\ applied' = IF r.updated THEN Append(applied, fight) ELSE applied
             /\ tr' = [tr EXCEPT !.raw_features = Append(@, r.features),
                                 !.given = r.given, !.i = @ + 1]
    /\ queries' = queries + 1
    /\ UNCHANGED <<otherVars, keep_running>>

train_feature_loop ==
    /\ tr.routine = "train"
    /\ feature_loop("train")

evaluate_feature_loop ==
    /\ tr.routine = "evaluate_model"
    /\ feature_loop("evaluate_model")

\* free_context: both stores released, counts and capacities zero
free_context(c) == init_context

\* train after the feature loop: free_context, the two augmented buffers, the
\* mirrored copy of the training base, compute_normalization over it
train_augment ==
    /\ tr.pc = "rows" /\ tr.routine = "train"
    /\ tr.i >= tr.num_samples
    /\ \E aug_raw \in malloc(tr.train_base_count * 2),
          aug_labels \in malloc(tr.train_base_count * 2) :
          tr' = IF aug_raw = "NULL" \/ aug_labels = "NULL"
                THEN [tr EXCEPT !.error = "augmented_buffers", !.pc = "returned"]
                ELSE [tr EXCEPT !.m.norm_count = tr.train_base_count * 2,
                                !.pc = "normalized"]
    /\ ctx' = free_context(ctx)
    /\ UNCHANGED <<applied, queries, features, stale_ref, otherVars, keep_running>>

\* train: the normalized matrix, then the two validation buffers
train_prepare ==
    /\ tr.pc = "normalized"
    /\ \E data \in malloc(tr.train_base_count * 2),
          val_data \in malloc(tr.val_count), val_labels \in malloc(tr.val_count) :
          tr' = IF data = "NULL"
                THEN [tr EXCEPT !.error = "normalized_matrix", !.pc = "returned"]
                ELSE IF val_data = "NULL" \/ val_labels = "NULL"
                THEN [tr EXCEPT !.error = "validation_buffers", !.pc = "returned"]
                ELSE [tr EXCEPT !.pc = "epochs"]
    /\ UNCHANGED <<ctxVars, otherVars, keep_running>>

\* train: the epoch loop as a whole (SpecEpoch runs it step by step), then
\* m->num_trained_samples = train_base_count.  The loop is entered iff
\* keep_running is set when its condition is first evaluated.
train_epoch_loop ==
    /\ tr.pc = "epochs"
    /\ tr' = [tr EXCEPT !.epochs_entered = keep_running,
                        !.m.w = IF keep_running /\ tr.train_base_count > 0
                                THEN "trained" ELSE @,
                        !.m.num_trained_samples = tr.train_base_count,
                        !.pc = "returned"]
    /\ UNCHANGED <<ctxVars, otherVars, keep_running>>

\* main: save_model(&model, model_path) follows train whatever train did
\* (train returns void); fopen may fail and main ignores the result
main_save_model ==
    /\ tr.pc = "returned" /\ tr.routine = "train"
    /\ \E fopen_ok \in BOOLEAN :
          tr' = [tr EXCEPT !.saved = fopen_ok, !.pc = "exit"]
    /\ UNCHANGED <<ctxVars, otherVars, keep_running>>

\* evaluate_model after the feature loop: free_context, the probability
\* buffers, the threshold search and the report
evaluate_report ==
    /\ tr.pc = "rows" /\ tr.routine = "evaluate_model"
    /\ tr.i >= tr.num_samples
    /\ \E val_probs \in malloc(tr.val_count), val_true \in malloc(tr.val_count) :
          tr' = IF val_probs = "NULL" \/ val_true = "NULL"
                THEN [tr EXCEPT !.error = "probability_buffers", !.pc = "exit"]
                ELSE [tr EXCEPT !.pc = "exit"]
    /\ ctx' = free_context(ctx)
    /\ UNCHANGED <<applied, queries, features, stale_ref, otherVars, keep_running>>

\* evaluate_model returned from its split or allocation check
evaluate_return ==
    /\ tr.pc = "returned" /\ tr.routine = "evaluate_model"
    /\ tr' = [tr EXCEPT !.pc = "exit"]
    /\ UNCHANGED <<ctxVars, otherVars, keep_running>>

NextTrain ==
    \/ train_sigint
    \/ main_init_model
    \/ train_split
    \/ evaluate_split
    \/ train_alloc
    \/ evaluate_alloc
    \/ train_feature_loop
    \/ evaluate_feature_loop
    \/ train_augment
    \/ train_prepare
    \/ train_epoch_loop
    \/ main_save_model
    \/ evaluate_report
    \/ evaluate_return

SpecTrain == InitTrain /\ [][NextTrain]_vars

(***************************************************************************)
(* Claims on the Trainer                                                   *)
(***************************************************************************)
TrackedNames == {NameA, NameB}

TrackedClasses == {ClassL, ClassF}

Won(fight, name, wc) == TookPart(fight, name, wc) /\ Winner(fight) = name

Lost(fight, name, wc) == TookPart(fight, name, wc) /\ Winner(fight) # name

\* the tracker c holds the outcomes of the observations of `past`, each once,
\* and no other outcome: every entity's and every pair's counts are the
\* counts over `past` (an entity or pair without a record counts as zero)
HoldsExactly(c, past) ==
    /\ \A name \in TrackedNames, wc \in TrackedClasses :
          LET recs == {k \in 1..Len(c.fighters) :
                          c.fighters[k].name = name /\ c.fighters[k].weight_class = wc}
              InSeg(f) == TookPart(f, name, wc)
              W(f) == Won(f, name, wc)
              L(f) == Lost(f, name, wc)
          IN  /\ Cardinality(recs) <= 1
              /\ recs = {} => Count(InSeg, past) = 0
              /\ \A k \in recs :
                    /\ c.fighters[k].total = Count(InSeg, past)
                    /\ c.fighters[k].wins = Count(W, past)
                    /\ c.fighters[k].losses = Count(L, past)
    /\ \A a \in TrackedNames, b \in TrackedNames, wc \in TrackedClasses :
          LET recs == {k \in 1..Len(c.h2h) :
                          /\ c.h2h[k].name_a = a /\ c.h2h[k].name_b = b
                          /\ c.h2h[k].weight_class = wc}
              rev == {k \in 1..Len(c.h2h) :
                          /\ c.h2h[k].name_a = b /\ c.h2h[k].name_b = a
                          /\ c.h2h[k].weight_class = wc}
              Met(f) == Between(f, a, b, wc)
              WonByA(f) == Met(f) /\ Winner(f) = a
              WonByB(f) == Met(f) /\ Winner(f) = b
          IN  /\ (a # b /\ recs = {} /\ rev = {}) => Count(Met, past) = 0
              /\ \A k \in recs :
                    /\ c.h2h[k].total = Count(Met, past)
                    /\ c.h2h[k].wins_a = Count(WonByA, past)
                    /\ c.h2h[k].wins_b = Count(WonByB, past)

\* the feature loop of train or evaluate_model is running; tr.i is the
\* (0-based) index of the next observation
InFeatureLoop == tr.pc = "rows"

AllocationErrors ==
    {"raw_features", "labels", "augmented_buffers", "normalized_matrix", "validation_buffers"}

\* C7: when a working-buffer allocation inside train fails (raw feature
\* matrix, labels, augmented buffers, normalized matrix, validation buffers),
\* no Model is persisted for that training invocation: the caller does not
\* save the model of a train call that aborted.
C7_NoModelPersistedAfterAllocationFailure ==
    (tr.routine = "train" /\ tr.error \in AllocationErrors) => ~tr.saved

\* the observations of the validation subset: indices train_base_count and up
ValidationSubset(t) == {k \in 0..(t.num_samples - 1) : k >= t.train_base_count}

\* C8: whatever sample count train is given, when the chronological split
\* leaves the validation subset empty train reports an error and returns
\* before compute_normalization and before the epoch loop; normalization
\* statistics are computed and epochs run only with a non-empty validation
\* subset.
C8_EmptyValidationAborts ==
    (tr.routine = "train" /\ tr.pc \notin {"main", "split"}) =>
        /\ (tr.pc \in {"normalized", "epochs"} \/ tr.m.norm_count # -1 \/ tr.epochs_entered)
              => (ValidationSubset(tr) # {} /\ tr.val_count >= 1)
        /\ (ValidationSubset(tr) = {} /\ tr.pc \in {"returned", "exit"})
              => (tr.error # "none" /\ tr.m.norm_count = -1 /\ ~tr.epochs_entered)

\* train was given no observation, went past its split check with
\* val_count = 1 and returned on the refused augmented-buffer request
C8_Witness ==
    /\ tr.routine = "train" /\ tr.pc = "returned"
    /\ tr.num_samples = 0 /\ ValidationSubset(tr) = {}
    /\ tr.val_count = 1
    /\ tr.error = "augmented_buffers"

(***************************************************************************)
(* SpecLeak: train on the first K observations of a date-sorted sequence   *)
(* beside train on all N of them, both taken past their allocations, the   *)
(* two feature loops advancing row by row                                  *)
(***************************************************************************)
\* largest N explored by SpecLeak
MaxLeakN == 7

\* date-sorted sequences with one observation per date
LeakDatasets ==
    UNION {{[k \in 1..n |-> Fight(Date(k), ClassL,
                                   TrainNames[p[k][1]], TrainNames[p[k][2]], p[k][3])] :
               p \in [1..n -> TrainMatchups]} : n \in 0..MaxLeakN}

\* one train call at the head of its feature loop
TrainCall(fights) ==
    [fights |-> fights, num_samples |-> Len(fights),
     train_base_count |-> split_train_base_count(Len(fights)),
     ctx |-> init_context, given |-> init_context, raw_features |-> <<>>]

\* the call after one more iteration of its feature loop
TrainCallRow(call, i, moved, junk, moved_again) ==
    CHOOSE next \in {[call EXCEPT !.ctx = r.ctx, !.given = r.given,
                                  !.raw_features = Append(@, r.features)] :
                        r \in {feature_row(call.ctx, call.fights[i + 1], i,
                                           call.train_base_count,
                                           moved, junk, moved_again)}} : TRUE

leakOther == <<ctxVars, tr, ep, ld, orch, laterVars, keep_running>>

InitLeak ==
    /\ ctx = init_context
    /\ applied = <<>>
    /\ queries = 0
    /\ features = NoFeatures
    /\ stale_ref = FALSE
    /\ keep_running = TRUE
    /\ tr = Idle /\ ep = Idle /\ ld = Idle /\ orch = Idle /\ LaterIdle
    /\ \E fights \in LeakDatasets :
          \E K \in 0..Len(fights) :
             lk = [pc |-> "split", fights |-> fights, K |-> K, i |-> 0,
                   short |-> TrainCall(<<>>), long |-> TrainCall(<<>>)]

\* both calls: qsort, the split, init_context(&train_ctx)
leak_split ==
    /\ lk.pc = "split"
    /\ \E prefix \in qsort(SubSeq(lk.fights, 1, lk.K)), whole \in qsort(lk.fights) :
          lk' = [lk EXCEPT !.short = TrainCall(prefix), !.long = TrainCall(whole),
                           !.pc = "rows"]
    /\ UNCHANGED leakOther

\* iteration i of the feature loop, in both calls
leak_row_both ==
    /\ lk.pc = "rows"
    /\ lk.i < lk.short.num_samples
    /\ \E moved \in realloc_moves(lk.short.ctx), junk \in stale_reads(lk.short.ctx),
          moved_again \in realloc_moves(lk.short.ctx),
          moved_l \in realloc_moves(lk.long.ctx), junk_l \in stale_reads(lk.long.ctx),
          moved_again_l \in realloc_moves(lk.long.ctx) :
          lk' = [lk EXCEPT
                   !.short = TrainCallRow(@, lk.i, moved, junk, moved_again),
                   !.long = TrainCallRow(@, lk.i, moved_l, junk_l, moved_again_l),
                   !.i = @ + 1]
    /\ UNCHANGED leakOther

\* iteration i of the feature loop of the call on the whole sequence, the
\* call on the prefix having left its loop
leak_row_long ==
    /\ lk.pc = "rows"
    /\ lk.i >= lk.short.num_samples
    /\ lk.i < lk.long.num_samples
    /\ \E moved \in realloc_moves(lk.long.ctx), junk \in stale_reads(lk.long.ctx),
          moved_again \in realloc_moves(lk.long.ctx) :
          lk' = [lk EXCEPT
                   !.long = TrainCallRow(@, lk.i, moved, junk, moved_again),
                   !.i = @ + 1]
    /\ UNCHANGED leakOther

NextLeak == leak_split \/ leak_row_both \/ leak_row_long

SpecLeak == InitLeak /\ [][NextLeak]_vars

(***************************************************************************)
(* Claims on the two train calls                                           *)
(***************************************************************************)
\* both calls have computed the features of the observation at index lk.i - 1
BothComputedRow == lk.pc = "rows" /\ lk.i >= 1 /\ lk.i <= lk.short.num_samples

max_epochs == 500

\* int patience = 50
patience == 50

\* largest train_base_count (the loop trains on 2 * train_base_count samples)
MaxEpochBase == 1
\* largest val_count
MaxEpochVal == 2

\* the sample loop polls the cancellation flag too
sample_loop_polls_flag(i, train_count, flag) == i < train_count /\ flag

\* for (int i = 0; i < train_count; i++)
sample_loop_condition(i, train_count, flag) == i < train_count

\* the early-stopping test one epoch late
early_stop_late(no_improve) == no_improve > patience

\* if (no_improve >= patience) break
early_stop(no_improve) == no_improve >= patience

epochOther == <<ctxVars, tr, lk, ld, orch, laterVars>>

\* best_val_acc is kept as the number of correct validation predictions it
\* was computed from (val_acc = val_correct / val_count, one val_count per run).
\* updates counts the backward calls made on the Model; epochs_run the epochs
\* whose validation pass has ended.  seq_max and seq_first describe the
\* validation-accuracy sequence itself: its maximum so far and the (1-based)
\* epoch that reached it first.  sig_epoch, sig_in_epoch and sig_i: where
\* SIGINT caught the loop.
InitEpoch ==
    /\ ctx = init_context
    /\ applied = <<>>
    /\ queries = 0
    /\ features = NoFeatures
    /\ stale_ref = FALSE
    /\ keep_running = TRUE
    /\ tr = Idle /\ lk = Idle /\ ld = Idle /\ orch = Idle /\ LaterIdle
    /\ \E train_base_count \in 0..MaxEpochBase, val_count \in 1..MaxEpochVal :
          ep = [pc |-> "for", epoch |-> 0, i |-> 0,
                train_count |-> 2 * train_base_count, val_count |-> val_count,
                best_val_correct |-> 0, no_improve |-> 0, stop |-> "none",
                updates |-> 0, epochs_run |-> 0,
                seq_max |-> -1, seq_first |-> 0,
                sig_epoch |-> -1, sig_in_epoch |-> FALSE, sig_i |-> 0]

\* handle_sigint
epoch_sigint ==
    /\ ep.pc # "done"
    /\ keep_running
    /\ keep_running' = FALSE
    /\ ep' = [ep EXCEPT !.sig_epoch = ep.epoch, !.sig_in_epoch = (ep.pc = "samples"),
                        !.sig_i = ep.i]
    /\ UNCHANGED epochOther

\* for (epoch = 0; epoch < max_epochs && keep_running; ...): the condition,
\* then the learning-rate decay and the shuffle of the epoch that starts
epoch_condition ==
    /\ ep.pc = "for"
    /\ ep' = IF ep.epoch < max_epochs /\ keep_running
             THEN [ep EXCEPT !.pc = "samples", !.i = 0]
             ELSE [ep EXCEPT !.pc = "done",
                             !.stop = IF ep.epoch < max_epochs THEN "cancelled" ELSE "max"]
    /\ UNCHANGED <<epochOther, keep_running>>

\* forward(m, data[i]); ...; backward(m, data[i], target, lr, momentum)
epoch_train_sample ==
    /\ ep.pc = "samples"
    /\ sample_loop_condition(ep.i, ep.train_count, keep_running)
    /\ ep' = [ep EXCEPT !.i = @ + 1, !.updates = @ + 1]
    /\ UNCHANGED <<epochOther, keep_running>>

\* the validation pass (val_correct of val_count predictions right), the
\* early-stopping bookkeeping, and epoch++ unless the loop breaks
epoch_validate ==
    /\ ep.pc = "samples"
    /\ ~sample_loop_condition(ep.i, ep.train_count, keep_running)
    /\ \E val_correct \in 0..ep.val_count :
          LET improved == val_correct > ep.best_val_correct
              no_improve == IF improved THEN 0 ELSE ep.no_improve + 1
              break == ~improved /\ early_stop(no_improve)
              higher == val_correct > ep.seq_max
          IN  ep' = [ep EXCEPT
                       !.best_val_correct = IF improved THEN val_correct ELSE @,
                       !.no_improve = no_improve,
                       !.epochs_run = @ + 1,
                       !.seq_max = IF higher THEN val_correct ELSE @,
                       !.seq_first = IF higher THEN ep.epoch + 1 ELSE @,
                       !.epoch = IF break THEN @ ELSE @ + 1,
                       !.stop = IF break THEN "early" ELSE @,
                       !.pc = IF break THEN "done" ELSE "for"]
    /\ UNCHANGED <<epochOther, keep_running>>

NextEpoch == epoch_sigint \/ epoch_condition \/ epoch_train_sample \/ epoch_validate

SpecEpoch == InitEpoch /\ [][NextEpoch]_vars

(***************************************************************************)
(* Claims on the epoch loop                                                *)
(***************************************************************************)
\* C5 as stated: when the best validation accuracy of the sequence is reached
\* (first) at epoch bestEpoch and no later epoch improves on it, the loop
\* halts at exactly bestEpoch + patience epochs, not earlier and not later
\* (below the 500-epoch maximum, without cancellation).
C5_HaltsAtBestEpochPlusPatience ==
    /\ ep.pc # "idle" /\ ep.stop = "early" => ep.epochs_run = ep.seq_first + patience
    /\ ep.pc # "idle" /\ ep.stop # "early" /\ ep.epochs_run >= 1
          => ep.epochs_run < ep.seq_first + patience

\* the last epoch that improved on the best validation accuracy: the first
\* epoch that reached the maximum of the sequence, or 0 when no epoch's
\* validation accuracy was above the initial best_val_acc = 0.0
LastImprovingEpoch == IF ep.seq_max > 0 THEN ep.seq_first ELSE 0

\* C5 amended: the loop halts at exactly bestEpoch + patience epochs, where
\* bestEpoch is the first epoch that reached the best validation accuracy
\* when that accuracy is above 0, and 0 when no epoch scored above 0 (an
\* accuracy of 0 never improves on the initial best of 0.0, so the loop halts
\* after exactly `patience` epochs); it does not halt for lack of improvement
\* earlier and does not run on later.
C5_HaltsPatienceAfterLastImprovement ==
    ep.pc # "idle" =>
        /\ ep.stop = "early" => ep.epochs_run = LastImprovingEpoch + patience
        /\ ep.stop # "early" => ep.epochs_run < LastImprovingEpoch + patience
        /\ ep.no_improve = ep.epochs_run - LastImprovingEpoch

\* the loop stopped early after an improvement made later than the first epoch
C5_Witness ==
    /\ ep.pc = "done" /\ ep.stop = "early"
    /\ ep.seq_max > 0 /\ ep.seq_first > 1
    /\ ep.epochs_run = ep.seq_first + patience
    /\ keep_running

\* C6: train reads keep_running only in the condition of the epoch loop.
\* When SIGINT arrives during an epoch, that epoch's pass over all training
\* samples and its validation pass complete and no further epoch starts;
\* whenever the loop is between epochs or has ended, the Model has taken
\* exactly the updates of whole epochs.
C6_CancellationOnlyAtEpochBoundary ==
    ep.pc # "idle" =>
        /\ ep.pc \in {"for", "done"} => ep.updates = ep.epochs_run * ep.train_count
        /\ ep.pc = "samples" => ep.updates = ep.epochs_run * ep.train_count + ep.i
        /\ (ep.pc = "done" /\ ep.sig_epoch >= 0) =>
              ep.epochs_run = ep.sig_epoch + (IF ep.sig_in_epoch THEN 1 ELSE 0)

\* SIGINT arrived between two training samples of a later epoch and the loop
\* ended, cancelled, after that epoch
C6_Witness ==
    /\ ep.pc = "done" /\ ep.stop = "cancelled"
    /\ ep.sig_in_epoch /\ ep.sig_epoch >= 1
    /\ ep.sig_i >= 1 /\ ep.sig_i < ep.train_count
    /\ ep.updates = (ep.sig_epoch + 1) * ep.train_count

(***************************************************************************)
(* SpecLoad: one load_model call on a snapshot file of any size            *)
(***************************************************************************)
\* sizeof(Model) on x86-64: 7011 long doubles of 16 bytes, 40 doubles, one
\* int, padded to the 16-byte alignment of long double
sizeof_Model == 112512

\* snapshot sizes explored: 0 and sizeof(Model) - MaxSizeDelta .. sizeof(Model) + MaxSizeDelta
MaxSizeDelta == 16

SnapshotSizes == {0} \cup ((sizeof_Model - MaxSizeDelta)..(sizeof_Model + MaxSizeDelta))

loadOther == <<ctxVars, tr, lk, ep, orch, laterVars, keep_running>>

\* file: the snapshot at `path` (exists, size in bytes; its first
\* sizeof(Model) bytes, when it has that many, are a Model some save_model
\* wrote).  m: what the caller's Model holds.  result: load_model's return.
InitLoad ==
    /\ ctx = init_context
    /\ applied = <<>>
    /\ queries = 0
    /\ features = NoFeatures
    /\ stale_ref = FALSE
    /\ keep_running = TRUE
    /\ tr = Idle /\ lk = Idle /\ ep = Idle /\ orch = Idle /\ LaterIdle
    /\ \E file \in {[exists |-> FALSE, size |-> 0]}
                     \cup {[exists |-> TRUE, size |-> size] : size \in SnapshotSizes} :
          ld = [pc |-> "fopen", file |-> file, sz |-> 0, m |-> "zero", result |-> 0]

\* f = fopen(path, "rb"); if (!f) return -1  (a file that exists may still
\* fail to open)
load_fopen ==
    /\ ld.pc = "fopen"
    /\ \E opened \in (IF ld.file.exists THEN BOOLEAN ELSE {FALSE}) :
          ld' = IF opened THEN [ld EXCEPT !.pc = "size"]
                ELSE [ld EXCEPT !.pc = "returned", !.result = -1]
    /\ UNCHANGED loadOther

\* fseek, sz = ftell(f) (-1 when ftell fails), rewind;
\* if (sz < (long)sizeof(Model)) return -1
load_size_check ==
    /\ ld.pc = "size"
    /\ \E sz \in {ld.file.size, -1} :
          ld' = IF sz < sizeof_Model
                THEN [ld EXCEPT !.sz = sz, !.pc = "returned", !.result = -1]
                ELSE [ld EXCEPT !.sz = sz, !.pc = "fread"]
    /\ UNCHANGED loadOther

\* if (fread(m, sizeof(Model), 1, f) != 1) return -1; else return 0.  A failed
\* read may have overwritten part of *m.
load_fread ==
    /\ ld.pc = "fread"
    /\ \E items \in {0, 1} :
          ld' = IF items # 1
                THEN [ld EXCEPT !.pc = "returned", !.result = -1, !.m = "partial"]
                ELSE [ld EXCEPT !.pc = "returned", !.result = 0, !.m = "snapshot"]
    /\ UNCHANGED loadOther

NextLoad == load_fopen \/ load_size_check \/ load_fread

SpecLoad == InitLoad /\ [][NextLoad]_vars

\* C9: load_model rejects every stored snapshot whose size differs from the
\* fixed Model size, shorter or longer, and accepts only a file of exactly
\* sizeof(Model) bytes.
C9_RejectsEverySizeMismatch ==
    (ld.pc = "returned" /\ ld.file.exists /\ ld.file.size # sizeof_Model)
        => (ld.result = -1 /\ ld.m # "snapshot")

(***************************************************************************)
(* Segment Orchestrator: train_models_by_class                             *)
(***************************************************************************)
\* if (buckets[i].count < 20) skip
min_class_fights == 20

\* most runs of equally-labelled observations in a dataset of SpecOrch
MaxRuns == 2

\* sanitize_class_name: isalnum characters lowered, every other one '_';
\* "u" for an empty name (labels are far shorter than the 128-byte slug)
sanitize_class_name(src) ==
    IF src = <<>> THEN <<117>>
    ELSE [k \in 1..Len(src) |-> IF isalnum(src[k]) THEN tolower(src[k]) ELSE 95]

\* build_class_model_path: "ufc_model_%s.bin" of the sanitized name
build_class_model_path(weight_class) ==
    <<117, 102, 99, 95, 109, 111, 100, 101, 108, 95>> \o sanitize_class_name(weight_class)
        \o <<46, 98, 105, 110>>

\* index of the bucket whose weight_class is strcmp-equal, 0 if none
find_bucket(buckets, weight_class) ==
    LET hits == {k \in 1..Len(buckets) : strcmp(buckets[k].weight_class, weight_class) = 0}
    IN  IF hits = {} THEN 0 ELSE Min(hits)

\* segment labels of the datasets: "LW", "lw", "L W", "L-W"
OrchLabels == {<<76, 87>>, <<108, 119>>, <<76, 32, 87>>, <<76, 45, 87>>}

RECURSIVE RunsToLabels(_)
RunsToLabels(runs) ==
    IF runs = <<>> THEN <<>>
    ELSE [k \in 1..Head(runs)[2] |-> Head(runs)[1]] \o RunsToLabels(Tail(runs))

\* weight_class of fights[0..num_fights-1]: up to MaxRuns runs of 19 or 20
\* observations of one label
OrchDatasets ==
    UNION {{RunsToLabels(runs) :
               runs \in [1..r -> OrchLabels \X {min_class_fights - 1, min_class_fights}]} :
             r \in 0..MaxRuns}

orchOther == <<ctxVars, tr, lk, ep, ld, laterVars>>

InitOrch ==
    /\ ctx = init_context
    /\ applied = <<>>
    /\ queries = 0
    /\ features = NoFeatures
    /\ stale_ref = FALSE
    /\ keep_running = TRUE
    /\ tr = Idle /\ lk = Idle /\ ep = Idle /\ ld = Idle /\ LaterIdle
    /\ \E labels \in OrchDatasets :
          orch = [pc |-> "running", weight_class |-> labels, num_fights |-> Len(labels),
                  i |-> 0, buckets |-> <<>>, bucket_cap |-> 0, placed |-> <<>>,
                  b |-> 0, saved |-> <<>>, result |-> 0]

\* handle_sigint
orch_sigint ==
    /\ orch.pc # "returned"
    /\ keep_running
    /\ keep_running' = FALSE
    /\ UNCHANGED <<orchOther, orch>>

\* one iteration of the first loop: get_or_add_bucket (by strcmp on the label
\* as it is, growing the bucket array 16, 32, ...), bucket_push_fight (growing
\* the bucket 128, 256, ...); either realloc may fail
orch_bucket_fight ==
    /\ orch.pc = "running"
    /\ orch.i < orch.num_fights
    /\ \E wc \in {IF orch.weight_class[orch.i + 1] # <<>>
                  THEN orch.weight_class[orch.i + 1]
                  ELSE <<85, 110, 107, 110, 111, 119, 110>>} :
          \E k \in {find_bucket(orch.buckets, wc)} :
             LET grows == k = 0 /\ Len(orch.buckets) >= orch.bucket_cap
                 b == IF k # 0 THEN k ELSE Len(orch.buckets) + 1
                 pushes_grow == k = 0 \/ orch.buckets[k].count >= orch.buckets[k].cap
                 added == IF k # 0 THEN orch.buckets
                          ELSE Append(orch.buckets,
                                      [weight_class |-> wc, count |-> 0, cap |-> 0])
                 pushed == [added EXCEPT ![b].count = @ + 1,
                                         ![b].cap = IF added[b].count < @ THEN @
                                                    ELSE IF @ = 0 THEN 128 ELSE @ * 2]
             IN  \E realloc_ok \in IF grows \/ pushes_grow THEN BOOLEAN ELSE {TRUE} :
                    orch' = IF ~realloc_ok
                            THEN [orch EXCEPT !.result = -1, !.pc = "returned"]
                            ELSE [orch EXCEPT
                                    !.buckets = pushed,
                                    !.bucket_cap = IF ~grows THEN @
                                                   ELSE IF @ = 0 THEN 16 ELSE @ * 2,
                                    !.placed = Append(@, b),
                                    !.i = @ + 1]
    /\ UNCHANGED <<orchOther, keep_running>>

\* a bucket is skipped unless it holds more than 20 observations
bucket_is_skipped_at_twenty(count) == count <= min_class_fights

\* if (buckets[i].count < 20) continue
bucket_is_skipped(count) == count < min_class_fights

\* one iteration of the second loop: a bucket of fewer than 20 observations
\* is skipped; otherwise init_model, train (which may abort on an allocation,
\* and enters its epoch loop only while keep_running is set),
\* build_class_model_path, save_model, whatever train did
orch_train_class ==
    /\ orch.pc = "running"
    /\ orch.i >= orch.num_fights
    /\ orch.b < Len(orch.buckets)
    /\ \E bucket \in {orch.buckets[orch.b + 1]},
          train_allocs \in BOOLEAN, fopen_ok \in BOOLEAN :
          orch' = IF bucket_is_skipped(bucket.count)
                  THEN [orch EXCEPT !.b = @ + 1]
                  ELSE IF ~fopen_ok
                  THEN [orch EXCEPT !.result = -1, !.pc = "returned"]
                  ELSE [orch EXCEPT
                          !.saved = Append(@,
                              [path |-> build_class_model_path(bucket.weight_class),
                               bucket |-> orch.b + 1,
                               weight_class |-> bucket.weight_class,
                               count |-> bucket.count,
                               init |-> init_model(ZeroModel).w,
                               model |-> IF ~train_allocs THEN "aborted"
                                         ELSE IF keep_running THEN "trained"
                                         ELSE "no_epoch"]),
                          !.b = @ + 1]
    /\ UNCHANGED <<orchOther, keep_running>>

\* free_buckets; return 0
orch_return ==
    /\ orch.pc = "running"
    /\ orch.i >= orch.num_fights
    /\ orch.b >= Len(orch.buckets)
    /\ orch' = [orch EXCEPT !.result = 0, !.pc = "returned"]
    /\ UNCHANGED <<orchOther, keep_running>>

NextOrch == orch_sigint \/ orch_bucket_fight \/ orch_train_class \/ orch_return

SpecOrch == InitOrch /\ [][NextOrch]_vars

\* C10: two observations are put in the same training bucket if and only if
\* their segment labels fold to the same key under sanitize_class_name;
\* no two distinct buckets of one run are persisted to the same model path.
C10_BucketsAreFoldedKeys ==
    /\ \A x, y \in 1..Len(orch.placed) :
          (orch.placed[x] = orch.placed[y])
            <=> (sanitize_class_name(orch.weight_class[x])
                   = sanitize_class_name(orch.weight_class[y]))
    /\ \A x, y \in 1..Len(orch.saved) :
          orch.saved[x].path = orch.saved[y].path
            => orch.saved[x].bucket = orch.saved[y].bucket

MaxQueries == 2

NameX == <<90, 101>>      \* "Ze", in no observation

NameALower == <<97, 108>> \* "al"

ClassLLower == <<108, 119>> \* "lw"

ClassX == <<70, 111, 111>>  \* "Foo", the weight class of no observation

Auto == <<97, 117, 116, 111>> \* "auto"

\* the key of a date in the one-character calendar: Date(k) is day k, and
\* Date(0) stands for a date that neither sscanf pattern parses (key 0)
event_date_to_key(event_date) == IF event_date = <<>> THEN 0 ELSE event_date[1] - 48

\* fighter_exists_in_history
fighter_exists_in_history(fights, fighter_name) ==
    /\ fighter_name # <<>>
    /\ \E i \in 1..Len(fights) :
          \/ name_equals_ci(fights[i].fighter1, fighter_name)
          \/ name_equals_ci(fights[i].fighter2, fighter_name)

\* the key and the weight class of the observation listed last among the
\* dated ones `name` took part in, whatever its date
last_listed_class_of(fights, name) ==
    LET mine == {i \in 1..Len(fights) :
                    /\ event_date_to_key(fights[i].event_date) > 0
                    /\ \/ name_equals_ci(fights[i].fighter1, name)
                       \/ name_equals_ci(fights[i].fighter2, name)}
    IN  IF mine = {} THEN <<0, <<>>>>
        ELSE <<event_date_to_key(fights[Max(mine)].event_date), fights[Max(mine)].weight_class>>

\* the latest key and the weight class of the first observation that has it,
\* among the observations `name` took part in: <<0, "">> if there is none
latest_class_of(fights, name) ==
    LET mine == {i \in 1..Len(fights) :
                    /\ event_date_to_key(fights[i].event_date) > 0
                    /\ \/ name_equals_ci(fights[i].fighter1, name)
                       \/ name_equals_ci(fights[i].fighter2, name)}
    IN  IF mine = {} THEN <<0, <<>>>>
        ELSE LET top == Max({event_date_to_key(fights[i].event_date) : i \in mine})
                 first == Min({i \in mine : event_date_to_key(fights[i].event_date) = top})
             IN  <<top, fights[first].weight_class>>

\* infer_latest_weight_class: [status, out_class]
infer_latest_weight_class(fights, fighter1, fighter2) ==
    LET l1 == latest_class_of(fights, fighter1)
        l2 == latest_class_of(fights, fighter2)
    IN  IF l1[1] = 0 /\ l2[1] = 0 THEN [status |-> 0, out_class |-> <<>>]
        ELSE IF l1[1] > 0 /\ l2[1] > 0
        THEN IF strcmp(l1[2], l2[2]) = 0 THEN [status |-> 1, out_class |-> l1[2]]
             ELSE [status |-> 2, out_class |-> IF l1[1] >= l2[1] THEN l1[2] ELSE l2[2]]
        ELSE [status |-> 1, out_class |-> IF l1[1] > 0 THEN l1[2] ELSE l2[2]]

\* is_allowed_weight_class
is_allowed_weight_class(weight_class) == weight_class # <<>>

\* fighter_stats_identical: every one of the 12 statistics within eps
fighter_stats_identical(s1, s2) == \A j \in 1..12 : s1[j] = s2[j]

\* observations in a history of SpecPredict
PredictFights == 25

\* the history load_ufc_data hands over: observations of Al and Bo in one
\* weight class, on dates that parse or on dates that do not
PredictHistory(dates_parse) ==
    [k \in 1..PredictFights |->
        Fight(Date(IF dates_parse THEN k ELSE 0), ClassL, NameA, NameB, k % 2)]

\* a probability in whole percent, or the NaN a forward pass yields on
\* normalized inputs that divided by a zero feat_std
Prob(pct) == [nan |-> FALSE, pct |-> pct]

NaN == [nan |-> TRUE, pct |-> 0]

\* output[0] after forward, by the kind of Model: "zero" is all bytes zero
\* (every in[i] * w1[i][j] is inf * 0 or nan * 0); "he_init" has weights but
\* feat_std still zero (train returned at an allocation); the others carry
\* the normalization statistics train computed
forward_output(kind) ==
    IF kind = "zero" THEN {NaN}
    ELSE IF kind = "he_init" THEN {NaN} \cup {Prob(q) : q \in {0, 50, 100}}
    ELSE {Prob(q) : q \in {5, 50, 94, 95, 100}}

\* temperature_scale_probability(prob, 4.0): sigmoid(logit(prob) / 4), a value
\* on the same side of 1/2 as prob and no further from it
temperature_scale_probability(prob) ==
    IF prob.nan THEN {NaN}
    ELSE {Prob(q) : q \in {r \in {5, 20, 50, 80, 95} :
                              \/ prob.pct = 50 /\ r = 50
                              \/ prob.pct > 50 /\ r >= 50 /\ r < prob.pct
                              \/ prob.pct < 50 /\ r <= 50 /\ r > prob.pct}}

\* 1.0L - prob
complement(prob) == IF prob.nan THEN NaN ELSE Prob(100 - prob.pct)

\* prob > decision_threshold
strictly_above_threshold(prob) == ~prob.nan /\ prob.pct > 95

\* prob >= decision_threshold (0.95L); false on NaN
at_least_threshold(prob) == ~prob.nan /\ prob.pct >= 95

\* const char *model_path = "ufc_model.bin"
model_path == <<117, 102, 99, 95, 109, 111, 100, 101, 108, 46, 98, 105, 110>>

\* load_model on a path of the file system `files`: 0 only when the file is
\* there and holds at least sizeof(Model) bytes
load_model(files, path) ==
    IF path \in DOMAIN files /\ files[path] = "snapshot" THEN 0 ELSE -1

\* the paths a run of SpecPredict touches
PredictPaths == {model_path, build_class_model_path(ClassL), build_class_model_path(ClassX)}

\* no query of the prompt loop answered yet
NoQuery ==
    [requested |-> <<>>, fighter1 |-> <<>>, fighter2 |-> <<>>, weight_class |-> <<>>,
     s1 |-> StatsLo, s2 |-> StatsLo]

predictOther == <<ctxVars, tr, lk, ep, ld, orch, ev, nn, io, fx, lastVars>>

\* main after load_ufc_data, with --predict, --predict-future or
\* --predict-historical on the command line.  dates_parse: the history is
\* PredictHistory(dates_parse).  files: what is stored under each path
\* ("absent", or a "snapshot" of at least sizeof(Model) bytes).
\* model: the kind of main's Model ("zero": all bytes zero; "he_init": as
\* init_model left it, train having returned at an allocation; "no_epoch":
\* train cancelled before its first epoch; "trained"; "snapshot": loaded).
InitPredict ==
    /\ ctx = init_context
    /\ applied = <<>>
    /\ queries = 0
    /\ features = NoFeatures
    /\ stale_ref = FALSE
    /\ keep_running = TRUE
    /\ tr = Idle /\ lk = Idle /\ ep = Idle /\ ld = Idle /\ orch = Idle
    /\ ev = Idle /\ nn = Idle /\ io = Idle /\ fx = Idle /\ LastIdle
    /\ \E flag_load \in BOOLEAN, flag_global \in BOOLEAN, future_mode \in BOOLEAN,
          dates_parse \in BOOLEAN, tty \in BOOLEAN,
          global_file \in {"absent", "snapshot"},
          class_file \in {"absent", "snapshot"} :
          pr = [pc |-> "main", flag_load |-> flag_load, flag_global |-> flag_global,
                future_mode |-> future_mode, dates_parse |-> dates_parse, isatty |-> tty,
                files |-> [path \in PredictPaths |->
                              IF path = model_path THEN global_file
                              ELSE IF path = build_class_model_path(ClassL) THEN class_file
                              ELSE "absent"],
                model |-> "zero", exit_code |-> 0, asked |-> 0, q |-> NoQuery,
                active |-> "none", class_loaded |-> FALSE, forward_ran |-> FALSE,
                prob_f1_wins |-> NaN, prob_f2_wins |-> NaN, report |-> "none"]

\* handle_sigint
predict_sigint ==
    /\ pr.pc # "exit"
    /\ keep_running
    /\ keep_running' = FALSE
    /\ UNCHANGED <<predictOther, pr>>

\* what init_model; train; leaves in the Model: train returns early when an
\* allocation fails, and runs no epoch when keep_running is already clear
train_outcome(train_allocs) ==
    IF ~train_allocs THEN "he_init" ELSE IF keep_running THEN "trained" ELSE "no_epoch"

\* save_model: the snapshot is stored unless fopen fails
save_model(files, path, fopen_ok) ==
    IF fopen_ok THEN [files EXCEPT ![path] = "snapshot"] ELSE files

\* main, from Model model = {0} to the call of predict_interactive: the three
\* branches on flag_global and flag_load
main_choose_model ==
    /\ pr.pc = "main"
    /\ \E class_training_ok \in BOOLEAN, train_allocs \in BOOLEAN, fopen_ok \in BOOLEAN :
          \E loaded \in {load_model(pr.files, model_path) = 0},
             made \in {train_outcome(train_allocs)} :
             pr' =
               IF ~pr.flag_global /\ ~pr.flag_load
               THEN IF ~class_training_ok
                    THEN [pr EXCEPT !.pc = "exit", !.exit_code = 1]
                    ELSE LET stored == save_model(pr.files, build_class_model_path(ClassL), TRUE)
                         IN  IF loaded
                             THEN [pr EXCEPT !.pc = "while", !.files = stored,
                                             !.model = "snapshot"]
                             ELSE [pr EXCEPT !.pc = "while",
                                             !.files = save_model(stored, model_path, fopen_ok),
                                             !.model = made]
               ELSE IF ~pr.flag_global /\ pr.flag_load
               THEN [pr EXCEPT !.pc = "while",
                               !.model = IF loaded THEN "snapshot" ELSE "zero"]
               ELSE IF pr.flag_load /\ loaded
                    THEN [pr EXCEPT !.pc = "while", !.model = "snapshot"]
                    ELSE [pr EXCEPT !.pc = "while",
                                    !.files = save_model(pr.files, model_path, fopen_ok),
                                    !.model = made]
    /\ UNCHANGED <<predictOther, keep_running>>

\* where a query that cannot be answered leaves the loop: break when stdin
\* is not a terminal, continue otherwise
after_rejection(tty) == IF tty THEN "while" ELSE "exit"

\* while (keep_running): the three fgets of a query (weight class, fighter 1,
\* fighter 2); fgets returning NULL or a line that starts with 'q' breaks
predict_while ==
    /\ pr.pc = "while"
    /\ \E ends \in IF pr.asked < MaxQueries THEN {"none", "eof", "q"} ELSE {"eof", "q"} :
       \E requested \in IF ends = "none" THEN {<<>>, Auto, ClassL, ClassLLower, ClassX}
                        ELSE {<<>>},
          fighter1 \in IF ends = "none" THEN {NameA, NameALower, NameX} ELSE {NameX},
          fighter2 \in IF ends = "none" THEN {NameB, NameX} ELSE {NameX} :
             pr' = IF ~keep_running \/ ends # "none"
                   THEN [pr EXCEPT !.pc = "exit"]
                   ELSE [pr EXCEPT !.pc = "history", !.asked = @ + 1,
                                   !.q = [NoQuery EXCEPT !.requested = requested,
                                                         !.fighter1 = fighter1,
                                                         !.fighter2 = fighter2],
                                   !.active = "none", !.class_loaded = FALSE,
                                   !.forward_ran = FALSE, !.prob_f1_wins = NaN,
                                   !.prob_f2_wins = NaN, !.report = "none"]
    /\ UNCHANGED <<predictOther, keep_running>>

\* the historical data check on both names
predict_history_check ==
    /\ pr.pc = "history"
    /\ pr' = IF /\ fighter_exists_in_history(PredictHistory(pr.dates_parse), pr.q.fighter1)
                /\ fighter_exists_in_history(PredictHistory(pr.dates_parse), pr.q.fighter2)
             THEN [pr EXCEPT !.pc = "class"]
             ELSE [pr EXCEPT !.report = "missing_history",
                             !.pc = after_rejection(pr.isatty)]
    /\ UNCHANGED <<predictOther, keep_running>>

\* the weight class of the query: inferred for "" or "auto", else as typed;
\* then is_allowed_weight_class
predict_weight_class ==
    /\ pr.pc = "class"
    /\ \E inferred \in {infer_latest_weight_class(PredictHistory(pr.dates_parse),
                                                  pr.q.fighter1, pr.q.fighter2)} :
          LET auto == pr.q.requested = <<>> \/ name_equals_ci(pr.q.requested, Auto)
              weight_class == IF auto THEN inferred.out_class ELSE pr.q.requested
          IN  pr' = IF auto /\ inferred.status = 0
                    THEN [pr EXCEPT !.report = "no_inferred_class",
                                    !.pc = after_rejection(pr.isatty)]
                    ELSE IF ~is_allowed_weight_class(weight_class)
                    THEN [pr EXCEPT !.q.weight_class = weight_class,
                                    !.report = "invalid_class",
                                    !.pc = after_rejection(pr.isatty)]
                    ELSE [pr EXCEPT !.q.weight_class = weight_class, !.pc = "stats"]
    /\ UNCHANGED <<predictOther, keep_running>>

\* the statistics of both fighters, each from the JSON dictionary or typed at
\* the prompt: fgets returning NULL breaks ("eof"), a line that is not 12
\* numbers continues with the next query ("bad")
predict_stats ==
    /\ pr.pc = "stats"
    /\ \E from1 \in {"dict", "typed", "eof", "bad"}, s1 \in {StatsHi} :
       \E from2 \in IF from1 \in {"eof", "bad"} THEN {"dict"}
                    ELSE {"dict", "typed", "eof", "bad"},
          s2 \in IF from1 \in {"eof", "bad"} THEN {StatsLo} ELSE {StatsLo, StatsHi} :
          pr' = IF from1 = "eof" \/ from2 = "eof"
                THEN [pr EXCEPT !.pc = "exit"]
                ELSE IF from1 = "bad" \/ from2 = "bad"
                THEN [pr EXCEPT !.report = "invalid_format", !.pc = "while"]
                ELSE [pr EXCEPT !.q.s1 = s1, !.q.s2 = s2, !.pc = "model"]
    /\ UNCHANGED <<predictOther, keep_running>>

\* Model active_model = *m; replaced by the class model when load_model of
\* the class model path succeeds
predict_active_model ==
    /\ pr.pc = "model"
    /\ \E found \in {load_model(pr.files, build_class_model_path(pr.q.weight_class)) = 0} :
          pr' = [pr EXCEPT !.active = IF found THEN "class_snapshot" ELSE pr.model,
                           !.class_loaded = found,
                           !.pc = "forward"]
    /\ UNCHANGED <<predictOther, keep_running>>

\* fighter_stats_identical, else compute_features, normalize_features,
\* forward, the temperature scaling of future mode and the decision
predict_forward ==
    /\ pr.pc = "forward"
    /\ \E output \in forward_output(pr.active) :
       \E prob_f1_wins \in IF pr.future_mode THEN temperature_scale_probability(output)
                           ELSE {output} :
          pr' = IF fighter_stats_identical(pr.q.s1, pr.q.s2)
                THEN [pr EXCEPT !.prob_f1_wins = Prob(50), !.prob_f2_wins = Prob(50),
                                !.report = "identical_stats", !.pc = "while"]
                ELSE [pr EXCEPT !.forward_ran = TRUE,
                                !.prob_f1_wins = prob_f1_wins,
                                !.prob_f2_wins = complement(prob_f1_wins),
                                !.report = IF at_least_threshold(prob_f1_wins)
                                           THEN "winner_fighter1"
                                           ELSE IF at_least_threshold(complement(prob_f1_wins))
                                           THEN "winner_fighter2"
                                           ELSE "unsure",
                                !.pc = "while"]
    /\ UNCHANGED <<predictOther, keep_running>>

NextPredict ==
    \/ predict_sigint \/ main_choose_model \/ predict_while \/ predict_history_check
    \/ predict_weight_class \/ predict_stats \/ predict_active_model \/ predict_forward

SpecPredict == InitPredict /\ [][NextPredict]_vars

\* C11: whenever predict_interactive runs the forward pass of a query for
\* whose weight class no class model could be loaded, the Model it uses is a
\* globally-trained one: produced by train or loaded from a global snapshot.
C11_FallbackIsGloballyTrained ==
    (pr.pc # "idle" /\ pr.forward_ran /\ ~pr.class_loaded)
        => pr.active \in {"trained", "snapshot"}

\* the reports that assert no winner
Inconclusive ==
    {"missing_history", "no_inferred_class", "invalid_class", "invalid_format",
     "identical_stats", "unsure"}

\* C15 as stated: predict_interactive names an entity as predicted winner
\* only when that entity's win probability is above 95%; every other answer
\* is inconclusive, and one query never names both entities.
C15_WinnerOnlyAboveThreshold ==
    pr.pc # "idle" =>
        /\ pr.report = "winner_fighter1"
              => (~pr.prob_f1_wins.nan /\ pr.prob_f1_wins.pct > 95)
        /\ pr.report = "winner_fighter2"
              => (~pr.prob_f2_wins.nan /\ pr.prob_f2_wins.pct > 95)
        /\ pr.report \notin {"winner_fighter1", "winner_fighter2", "none"}
              => pr.report \in Inconclusive

\* C15 amended: an entity is named predicted winner exactly when the forward
\* pass ran and that entity's win probability is at least 95% (>= 0.95, the
\* threshold itself included); every other answer is inconclusive; the two
\* probabilities add up to 1, so one query never names both entities.
C15_WinnerOnlyAtOrAboveThreshold ==
    pr.pc # "idle" =>
        /\ pr.report = "winner_fighter1"
              <=> (pr.forward_ran /\ ~pr.prob_f1_wins.nan /\ pr.prob_f1_wins.pct >= 95)
        /\ pr.report = "winner_fighter2"
              <=> (pr.forward_ran /\ ~pr.prob_f2_wins.nan /\ pr.prob_f2_wins.pct >= 95)
        /\ pr.report \notin {"winner_fighter1", "winner_fighter2", "none"}
              => pr.report \in Inconclusive
        /\ (pr.forward_ran /\ ~pr.prob_f1_wins.nan)
              => pr.prob_f1_wins.pct + pr.prob_f2_wins.pct = 100

\* a query was answered with fighter 2 as winner at exactly 95%, after an
\* earlier query of the same loop
C15_Witness ==
    /\ pr.pc = "while" /\ pr.asked = 2
    /\ pr.report = "winner_fighter2"
    /\ pr.prob_f2_wins = Prob(95)

\* an entity of the query takes part in no observation of the history
UnresolvedEntity ==
    \/ ~fighter_exists_in_history(PredictHistory(pr.dates_parse), pr.q.fighter1)
    \/ ~fighter_exists_in_history(PredictHistory(pr.dates_parse), pr.q.fighter2)

\* the weight class typed for the query folds to the key of no weight class
\* of the history
UnrecognizedSegment ==
    /\ pr.q.requested # <<>>
    /\ ~name_equals_ci(pr.q.requested, Auto)
    /\ \A i \in 1..PredictFights :
          sanitize_class_name(PredictHistory(pr.dates_parse)[i].weight_class)
            # sanitize_class_name(pr.q.requested)

\* C16: a query with an entity that cannot be resolved in the history, with a
\* weight class that is not recognized, or with two identical statistic
\* tuples is answered with a no-confident-prediction report that asserts no
\* winner, and the prompt loop continues or ends.
C16_MalformedQueryAssertsNoWinner ==
    (/\ pr.pc \in {"while", "exit"}
     /\ pr.report # "none"
     /\ \/ UnresolvedEntity
        \/ UnrecognizedSegment
        \/ fighter_stats_identical(pr.q.s1, pr.q.s2))
        => pr.report \in Inconclusive

(***************************************************************************)
(* Evaluator: the threshold search of evaluate_model                       *)
(***************************************************************************)
\* largest val_count of SpecThreshold
MaxThresholdVal == 3

\* for (int step = 20; step <= 80; step++)
first_step == 20

last_step == 80

RatAdd(x, y) == Rat(x[1] * y[2] + y[1] * x[2], x[2] * y[2])

RatGreater(x, y) == RatSub(x, y)[1] > 0

\* validation probabilities, in thousandths: on both sides of the grid, on
\* its ends and between two of its points
ThresholdProbs == {200, 455, 500, 800}

\* the improvement test that lets a later threshold of equal balanced
\* accuracy replace the selected one
bal_acc_improves_or_ties(bal_acc, best_bal_acc) == ~RatGreater(best_bal_acc, bal_acc)

\* if (bal_acc > best_bal_acc)
bal_acc_improves(bal_acc, best_bal_acc) == RatGreater(bal_acc, best_bal_acc)

\* the body of the step loop up to bal_acc: threshold = step / 100, the
\* confusion counts of val_probs[i] >= threshold against val_true[i], the two
\* rates (0 when the class is absent) and 0.5 * (tpr + tnr)
balanced_accuracy(val_probs, val_true, step) ==
    LET idx == 1..Len(val_probs)
        pred_class(i) == IF val_probs[i] >= step * 10 THEN 1 ELSE 0
        stp == Cardinality({i \in idx : pred_class(i) = 1 /\ val_true[i] = 1})
        stn == Cardinality({i \in idx : pred_class(i) = 0 /\ val_true[i] = 0})
        sfp == Cardinality({i \in idx : pred_class(i) = 1 /\ val_true[i] = 0})
        sfn == Cardinality({i \in idx : pred_class(i) = 0 /\ val_true[i] = 1})
        tpr == IF stp + sfn > 0 THEN Rat(stp, stp + sfn) ELSE RatInt(0)
        tnr == IF stn + sfp > 0 THEN Rat(stn, stn + sfp) ELSE RatInt(0)
        both == RatAdd(tpr, tnr)
    IN  Rat(both[1], 2 * both[2])

thresholdOther == <<ctxVars, tr, lk, ep, ld, orch, pr, nn, io, fx, lastVars, keep_running>>

\* evaluate_model after the validation loop: best_threshold = 0.5 (50
\* hundredths), best_bal_acc = -1, step = 20
InitThreshold ==
    /\ ctx = init_context
    /\ applied = <<>>
    /\ queries = 0
    /\ features = NoFeatures
    /\ stale_ref = FALSE
    /\ keep_running = TRUE
    /\ tr = Idle /\ lk = Idle /\ ep = Idle /\ ld = Idle /\ orch = Idle
    /\ pr = Idle /\ nn = Idle /\ io = Idle /\ fx = Idle /\ LastIdle
    /\ \E val_count \in 0..MaxThresholdVal :
       \E val_probs \in [1..val_count -> ThresholdProbs],
          val_true \in [1..val_count -> {0, 1}] :
          ev = [pc |-> "search", val_probs |-> val_probs, val_true |-> val_true,
                step |-> first_step, best_threshold |-> 50,
                best_bal_acc |-> RatInt(-1)]

\* one iteration of the step loop
threshold_step ==
    /\ ev.pc = "search"
    /\ ev.step <= last_step
    /\ \E bal_acc \in {balanced_accuracy(ev.val_probs, ev.val_true, ev.step)} :
          ev' = IF bal_acc_improves(bal_acc, ev.best_bal_acc)
                THEN [ev EXCEPT !.best_bal_acc = bal_acc, !.best_threshold = ev.step,
                                !.step = @ + 1]
                ELSE [ev EXCEPT !.step = @ + 1]
    /\ UNCHANGED thresholdOther

\* the loop ends; the metrics at best_threshold are reported
threshold_report ==
    /\ ev.pc = "search"
    /\ ev.step > last_step
    /\ ev' = [ev EXCEPT !.pc = "reported"]
    /\ UNCHANGED thresholdOther

NextThreshold == threshold_step \/ threshold_report

SpecThreshold == InitThreshold /\ [][NextThreshold]_vars

\* C12: the threshold evaluate_model selects is a point of the grid
\* 0.20, 0.21, ..., 0.80; no grid threshold has a higher balanced accuracy,
\* and among the thresholds of equal balanced accuracy it is the lowest.
C12_SelectsLowestBestThreshold ==
    ev.pc = "reported" =>
        /\ ev.best_threshold \in first_step..last_step
        /\ ev.best_bal_acc
             = balanced_accuracy(ev.val_probs, ev.val_true, ev.best_threshold)
        /\ \A step \in first_step..last_step :
              LET bal_acc == balanced_accuracy(ev.val_probs, ev.val_true, step)
              IN  /\ ~RatGreater(bal_acc, ev.best_bal_acc)
                  /\ bal_acc = ev.best_bal_acc => ev.best_threshold <= step

\* the search ended on a threshold inside the grid that a higher threshold
\* ties with and that beats the lowest threshold
C12_Witness ==
    /\ ev.pc = "reported"
    /\ ev.best_threshold > first_step
    /\ \E step \in (ev.best_threshold + 1)..last_step :
          balanced_accuracy(ev.val_probs, ev.val_true, step) = ev.best_bal_acc
    /\ RatGreater(ev.best_bal_acc,
                  balanced_accuracy(ev.val_probs, ev.val_true, first_step))

(***************************************************************************)
(* Feature Engineer: one compute_features call, ctx given or NULL          *)
(***************************************************************************)
\* StatsLo with sub_avg 2 and a higher strike rate
StatsSub == <<170, 170, 30, 4, 1, 2, 1, 1, 1, 1, 2, 155>>

\* the trackers a call may be given: empty, or holding one observation
FeatureContexts ==
    {init_context} \cup {update_context_with_result(init_context, fight, FALSE).ctx :
                            fight \in CtxFights}

\* the matchups of Al and Bo with every pair of statistic tuples
FeatureQueries ==
    {[Fight(<<50>>, ClassL, NameA, NameB, 1) EXCEPT !.s1 = s1, !.s2 = s2] :
        s1 \in {StatsLo, StatsHi, StatsSub}, s2 \in {StatsLo, StatsHi, StatsSub}}

featuresOther == <<ctxVars, tr, lk, ep, ld, orch, pr, ev, nn, io, lastVars, keep_running>>

InitFeatures ==
    /\ ctx = init_context
    /\ applied = <<>>
    /\ queries = 0
    /\ features = NoFeatures
    /\ stale_ref = FALSE
    /\ keep_running = TRUE
    /\ tr = Idle /\ lk = Idle /\ ep = Idle /\ ld = Idle /\ orch = Idle
    /\ pr = Idle /\ ev = Idle /\ nn = Idle /\ io = Idle /\ LastIdle
    /\ \E fight \in FeatureQueries, given \in FeatureContexts, has_ctx \in BOOLEAN :
          fx = [pc |-> "call", fight |-> fight, ctx |-> given, has_ctx |-> has_ctx,
                features |-> NoFeatures]

\* compute_features(&fight, features, has_ctx ? &ctx : NULL)
features_call ==
    /\ fx.pc = "call"
    /\ \E q \in {compute_features(fx.fight, fx.ctx, fx.has_ctx, FALSE,
                                  [null |-> FALSE, wins |-> 0, losses |-> 0, total |-> 0])} :
          fx' = [fx EXCEPT !.pc = "returned", !.ctx = q.ctx, !.features = q.features]
    /\ UNCHANGED featuresOther

NextFeatures == features_call

SpecFeatures == InitFeatures /\ [][NextFeatures]_vars

\* 0.0 as feature j holds it: the weighted-score delta (feature 18 here,
\* FEAT_WEIGHTED_SCORE_DELTA) is a difference of two score terms
ZeroFeature(j) == IF j = 18 THEN ScoreSub(<<0, 1, 0>>, <<0, 1, 0>>) ELSE RatInt(0)

\* C13: when compute_features is called with ctx == NULL, the six
\* context-derived features (prior win-rate delta, total-wins delta,
\* total-fights delta, weighted-score delta, style-bias indicator delta,
\* head-to-head bias: features 14..19) are zero for every pair of statistic
\* tuples.
C13_ContextFeaturesZeroWithoutTracker ==
    (fx.pc = "returned" /\ ~fx.has_ctx)
        => \A j \in 15..20 : fx.features[j] = ZeroFeature(j)

(***************************************************************************)
(* Trainer: data preparation of train.  The raw feature matrix and the     *)
(* labels are the ones the feature loop produced; the preparation mirrors  *)
(* the training rows, computes the normalisation statistics over the       *)
(* mirrored set, and normalises the training and the validation rows.      *)
(* Reals are exact rationals <<numerator, denominator>>.                   *)
(***************************************************************************)

\* the largest number of observations handed to the preparation
MaxPrepN == 3

\* the feature columns of the scaled-down matrix (INPUT_SIZE is 20)
PrepColumns == 1..2

\* the raw feature values of a column
PrepValues == {0, 2}

RatMul(x, y) == Rat(x[1] * y[1], x[2] * y[2])

RatDiv(x, y) == Rat(x[1] * y[2], x[2] * y[1])

\* x < y for a positive y, by the quotient (the cross products of a std and
\* the 1e-8 literal do not fit 32 bits)
RatLess(x, y) == RatDiv(x, y)[1] < RatDiv(x, y)[2]

\* 0.0 / 0.0 and everything computed from it
NaNRat == <<0, 0>>

\* the 1e-8 literal of compute_normalization
norm_eps == Rat(1, 100000000)

\* the square roots the preparation meets: sqrt(1e-8) and sqrt(4)
SqrtTable == {Rat(1, 10000), RatInt(2)}

has_sqrt(v) == \E r \in SqrtTable : RatMul(r, r) = v

sqrt(v) == CHOOSE r \in SqrtTable : RatMul(r, r) = v

RECURSIVE column_sum(_, _, _)
\* sum[j] after the first count rows
column_sum(raw, count, j) ==
    IF count = 0 THEN RatInt(0)
    ELSE RatAdd(column_sum(raw, count - 1, j), raw[count][j])

RECURSIVE column_sq_sum(_, _, _)
\* sq_sum[j] after the first count rows
column_sq_sum(raw, count, j) ==
    IF count = 0 THEN RatInt(0)
    ELSE RatAdd(column_sq_sum(raw, count - 1, j),
                RatMul(raw[count][j], raw[count][j]))

\* m->feat_mean[j]
column_mean(raw, count, j) ==
    IF count = 0 THEN NaNRat
    ELSE RatDiv(column_sum(raw, count, j), RatInt(count))

\* the local variance of compute_normalization
column_variance(raw, count, j) ==
    IF count = 0 THEN NaNRat
    ELSE RatSub(RatDiv(column_sq_sum(raw, count, j), RatInt(count)),
                RatMul(column_mean(raw, count, j), column_mean(raw, count, j)))

\* variance > 0, false for a NaN
variance_is_positive(variance) == variance # NaNRat /\ RatGreater(variance, RatInt(0))

\* the std of a dimension whose variance is not positive, had it been 1.0
feat_std_of_flat_is_one(variance) ==
    IF variance_is_positive(variance) THEN sqrt(variance) ELSE RatInt(1)

\* m->feat_std[j]: sqrt of the floored variance, 1.0 when that is below 1e-8
feat_std_of(variance) ==
    LET std == sqrt(IF variance_is_positive(variance) THEN variance ELSE norm_eps)
    IN  IF RatLess(std, norm_eps) THEN RatInt(1) ELSE std

\* compute_normalization: the statistics of the first count rows of raw
compute_normalization(raw, count) ==
    [feat_mean |-> [j \in PrepColumns |-> column_mean(raw, count, j)],
     feat_std  |-> [j \in PrepColumns |->
                        feat_std_of(column_variance(raw, count, j))]]

\* normalize_features
normalize_features(row, m) ==
    [j \in PrepColumns |->
        IF m.feat_mean[j] = NaNRat \/ row[j] = NaNRat THEN NaNRat
        ELSE RatDiv(RatSub(row[j], m.feat_mean[j]), m.feat_std[j])]

\* the mirroring loop run over every observation instead of the training rows
augment_all_samples(raw_features, labels, train_base_count) ==
    LET n == Len(raw_features)
    IN  [aug_raw    |-> [k \in 1..(2 * n) |->
                            IF k <= n THEN raw_features[k]
                            ELSE [j \in PrepColumns |->
                                    RatNeg(raw_features[k - n][j])]],
         aug_labels |-> [k \in 1..(2 * n) |->
                            IF k <= n THEN labels[k] ELSE 1 - labels[k - n]]]

\* the mirroring loop of train: row i and its negation at i + train_base_count
augment(raw_features, labels, train_base_count) ==
    [aug_raw    |-> [k \in 1..(2 * train_base_count) |->
                        IF k <= train_base_count THEN raw_features[k]
                        ELSE [j \in PrepColumns |->
                                RatNeg(raw_features[k - train_base_count][j])]],
     aug_labels |-> [k \in 1..(2 * train_base_count) |->
                        IF k <= train_base_count THEN labels[k]
                        ELSE 1 - labels[k - train_base_count]]]

\* the raw matrices whose mirrored training rows have variances in SqrtTable
PrepMatrices(n) ==
    {raw \in [1..n -> [PrepColumns -> {RatInt(v) : v \in PrepValues}]] :
        \A j \in PrepColumns :
            \E aug \in {augment(raw, [k \in 1..n |-> 0],
                                split_train_base_count(n))} :
                \E variance \in {column_variance(aug.aug_raw,
                                    2 * split_train_base_count(n), j)} :
                    variance_is_positive(variance) => has_sqrt(variance)}

NoTwin == [i |-> 0]

prepareOther == <<ctx, applied, queries, features, stale_ref, tr, lk, ep, ld,
                  orch, pr, ev, io, fx, lastVars, keep_running>>

InitPrepare ==
    /\ ctx = [fighters |-> <<>>, capacity |-> 0]
    /\ applied = <<>>
    /\ queries = <<>>
    /\ features = <<>>
    /\ stale_ref = FALSE
    /\ tr = Idle /\ lk = Idle /\ ep = Idle /\ ld = Idle /\ orch = Idle
    /\ pr = Idle /\ ev = Idle /\ io = Idle /\ fx = Idle /\ LastIdle
    /\ keep_running = TRUE
    /\ \E n \in 1..MaxPrepN :
       \E raw \in PrepMatrices(n) :
       \E labels \in [1..n -> {0, 1}] :
          nn = [pc |-> "augment", raw_features |-> raw, labels |-> labels,
                num_samples |-> n,
                train_base_count |-> split_train_base_count(n),
                val_count |-> n - split_train_base_count(n),
                aug_raw |-> <<>>, aug_labels |-> <<>>,
                m |-> [feat_mean |-> <<>>, feat_std |-> <<>>],
                data |-> <<>>, val_data |-> <<>>, val_labels |-> <<>>,
                twin |-> NoTwin]

\* aug_raw and aug_labels are allocated and filled
prepare_augment ==
    /\ nn.pc = "augment"
    /\ \E malloc_ok \in BOOLEAN :
          IF ~malloc_ok THEN nn' = [nn EXCEPT !.pc = "returned"]
          ELSE \E aug \in {augment(nn.raw_features, nn.labels,
                                   nn.train_base_count)} :
                  nn' = [nn EXCEPT !.pc = "normalize",
                                   !.aug_raw = aug.aug_raw,
                                   !.aug_labels = aug.aug_labels]
    /\ UNCHANGED prepareOther

\* compute_normalization over the mirrored rows, then data is filled
prepare_normalize ==
    /\ nn.pc = "normalize"
    /\ \E m \in {compute_normalization(nn.aug_raw, 2 * nn.train_base_count)} :
       \E malloc_ok \in BOOLEAN :
          IF ~malloc_ok THEN nn' = [nn EXCEPT !.pc = "returned", !.m = m]
          ELSE nn' = [nn EXCEPT !.pc = "validation", !.m = m,
                        !.data = [k \in 1..(2 * nn.train_base_count) |->
                                    normalize_features(nn.aug_raw[k], m)]]
    /\ UNCHANGED prepareOther

\* val_data and val_labels are allocated and filled
prepare_validation ==
    /\ nn.pc = "validation"
    /\ \E malloc_ok \in BOOLEAN :
          IF ~malloc_ok THEN nn' = [nn EXCEPT !.pc = "returned"]
          ELSE nn' = [nn EXCEPT !.pc = "prepared",
                        !.val_data = [i \in 1..nn.val_count |->
                            normalize_features(
                                nn.raw_features[nn.train_base_count + i], nn.m)],
                        !.val_labels = [i \in 1..nn.val_count |->
                            nn.labels[nn.train_base_count + i]]]
    /\ UNCHANGED prepareOther

\* the hidden units of the scaled-down network (HIDDEN_1_SIZE is 64,
\* HIDDEN_2_SIZE is 32)
Hidden1 == 1..2

Hidden2 == 1..1

\* expl, by a rational function that keeps its laws: positive, increasing,
\* expl(0) = 1 and expl(-x) = 1 / expl(x)
expl(x) ==
    IF x[1] >= 0 THEN RatAdd(RatInt(1), x)
    ELSE RatDiv(RatInt(1), RatSub(RatInt(1), x))

\* tanhl(x) = (e^2x - 1) / (e^2x + 1)
tanhl(x) ==
    RatDiv(RatSub(expl(RatMul(RatInt(2), x)), RatInt(1)),
           RatAdd(expl(RatMul(RatInt(2), x)), RatInt(1)))

relu(x) == IF x[1] > 0 THEN x ELSE RatInt(0)

tanh_act(x) == tanhl(x)

sigmoid(x) == RatDiv(RatInt(1), RatAdd(RatInt(1), expl(RatNeg(x))))

\* the values he_init draws: ((rand() / RAND_MAX) * 2 - 1) * sqrtl(2 / fan_in)
he_init_values == {RatInt(-1), Rat(1, 2)}

\* the models init_model leaves: everything zero but the three weight matrices
fresh_models ==
    {[w1 |-> w1, b1 |-> [j \in Hidden1 |-> RatInt(0)],
      w2 |-> w2, b2 |-> [j \in Hidden2 |-> RatInt(0)],
      w3 |-> w3, b3 |-> RatInt(0)] :
        w1 \in [PrepColumns -> [Hidden1 -> he_init_values]],
        w2 \in [Hidden1 -> [Hidden2 -> he_init_values]],
        w3 \in [Hidden2 -> he_init_values]}

RECURSIVE weighted_sum(_, _, _, _)
\* sum += xs[i] * w[i] for i up to n, starting from the bias
weighted_sum(bias, xs, w, n) ==
    IF n = 0 THEN bias
    ELSE RatAdd(weighted_sum(bias, xs, w, n - 1), RatMul(xs[n], w[n]))

forward_h1(m, in) ==
    [j \in Hidden1 |->
        tanh_act(weighted_sum(m.b1[j], in, [i \in PrepColumns |-> m.w1[i][j]],
                              Cardinality(PrepColumns)))]

forward_h2(m, h1) ==
    [j \in Hidden2 |->
        tanh_act(weighted_sum(m.b2[j], h1, [i \in Hidden1 |-> m.w2[i][j]],
                              Cardinality(Hidden1)))]

\* forward: m->output[0]
forward(m, in) ==
    sigmoid(weighted_sum(m.b3, forward_h2(m, forward_h1(m, in)), m.w3,
                         Cardinality(Hidden2)))

\* the cross-entropy term -target * logl(pred + 1e-15) - (1 - target) *
\* logl(1 - pred + 1e-15) of a 0/1 target, by the one probability whose
\* logarithm it takes (logl is injective)
cross_entropy(pred, target) ==
    IF target = 1 THEN pred ELSE RatSub(RatInt(1), pred)

\* a freshly initialised network runs forward on row i and on its mirror
twin_forward ==
    /\ nn.pc = "prepared"
    /\ \E i \in 1..nn.train_base_count :
       \E m \in fresh_models :
       \E pred \in {forward(m, nn.data[i])} :
       \E pred_mirror \in {forward(m, nn.data[i + nn.train_base_count])} :
          nn' = [nn EXCEPT !.pc = "forwarded",
                    !.twin = [i |-> i, pred |-> pred,
                              pred_mirror |-> pred_mirror,
                              loss |-> cross_entropy(pred, nn.aug_labels[i]),
                              loss_mirror |-> cross_entropy(pred_mirror,
                                  nn.aug_labels[i + nn.train_base_count])]]
    /\ UNCHANGED prepareOther

NextPrepare ==
    \/ prepare_augment
    \/ prepare_normalize
    \/ prepare_validation
    \/ twin_forward

SpecPrepare == InitPrepare /\ [][NextPrepare]_vars

\* C17: the augmented training set has 2 * train_base_count samples; position
\* i holds training row i with its label and position i + train_base_count
\* holds the negated row with the complemented label; the validation rows are
\* the remaining observations, each once and un-negated, and none of them is
\* in the augmented set.
C17_AugmentedSetIsMirroredTrainingRows ==
    nn.pc \in {"prepared", "forwarded"} =>
        /\ Len(nn.aug_raw) = 2 * nn.train_base_count
        /\ Len(nn.aug_labels) = 2 * nn.train_base_count
        /\ Len(nn.data) = 2 * nn.train_base_count
        /\ \A i \in 1..nn.train_base_count :
              /\ nn.aug_raw[i] = nn.raw_features[i]
              /\ nn.aug_labels[i] = nn.labels[i]
              /\ \A j \in PrepColumns :
                    nn.aug_raw[i + nn.train_base_count][j]
                        = RatSub(RatInt(0), nn.raw_features[i][j])
              /\ nn.aug_labels[i + nn.train_base_count] = 1 - nn.labels[i]
        /\ \A k \in 1..Len(nn.data) :
              nn.data[k] = normalize_features(nn.aug_raw[k], nn.m)
        /\ Len(nn.val_data) = nn.num_samples - nn.train_base_count
        /\ Len(nn.val_labels) = nn.num_samples - nn.train_base_count
        /\ \A i \in 1..Len(nn.val_data) :
              /\ nn.val_data[i] = normalize_features(
                                    nn.raw_features[nn.train_base_count + i], nn.m)
              /\ nn.val_labels[i] = nn.labels[nn.train_base_count + i]

\* two training rows that differ from the validation row, mirrored
C17_Witness ==
    /\ nn.pc = "prepared"
    /\ nn.train_base_count = 2
    /\ nn.raw_features[1] # nn.raw_features[3]
    /\ nn.raw_features[2] # nn.raw_features[3]
    /\ nn.aug_raw[3] # nn.aug_raw[1]
    /\ nn.labels[1] # nn.labels[2]
    /\ Len(nn.val_data) = 1

\* C18: for a freshly initialised network and every twin pair, the output on
\* the mirrored row is one minus the output on the row, and the two
\* cross-entropy losses are the same.
C18_TwinPredictionsAreComplementary ==
    nn.pc = "forwarded" =>
        /\ nn.twin.pred_mirror = RatSub(RatInt(1), nn.twin.pred)
        /\ nn.twin.loss_mirror = nn.twin.loss

\* a twin pair on which the network does not answer one half
C18_Witness ==
    /\ nn.pc = "forwarded"
    /\ nn.twin.pred # Rat(1, 2)
    /\ nn.twin.pred_mirror # nn.twin.pred
    /\ nn.data[nn.twin.i] # nn.data[nn.twin.i + nn.train_base_count]

\* C20: after compute_normalization every std is at least the epsilon, and a
\* dimension whose variance is zero or negative has its std replaced by 1.0.
C20_FlatDimensionGetsUnitStd ==
    (nn.pc \in {"validation", "prepared", "forwarded"} /\ nn.train_base_count >= 1)
        => \A j \in PrepColumns :
              /\ ~RatLess(nn.m.feat_std[j], norm_eps)
              /\ nn.m.feat_std[j]
                    = feat_std_of_flat_is_one(
                        column_variance(nn.aug_raw, 2 * nn.train_base_count, j))

(***************************************************************************)
(* Persistence: save_model followed by load_model on the same path.  A     *)
(* Model is its members in declaration order, one word each; the file is   *)
(* the sequence of words written to it.                                    *)
(***************************************************************************)

\* the largest value a member of a stored Model takes
MaxStoreValue == 2

\* the members of Model, in declaration order
ModelLayout ==
    <<"w1", "b1", "w2", "b2", "w3", "b3",
      "v_w1", "v_b1", "v_w2", "v_b2", "v_w3", "v_b3",
      "h1", "h2", "output", "feat_mean", "feat_std", "num_trained_samples">>

ModelMembers == {ModelLayout[k] : k \in 1..Len(ModelLayout)}

\* Model m = {0}
ZeroStoreModel == [member \in ModelMembers |-> 0]

\* the Models handed to save_model: every member is told apart from the others
StoreModels ==
    {ZeroStoreModel}
        \cup {[member \in ModelMembers |-> IF member = marked THEN v ELSE 0] :
                marked \in ModelMembers, v \in 1..MaxStoreValue}

\* the object representation fwrite copies out: the members in order
object_bytes(m) == [k \in 1..Len(ModelLayout) |-> m[ModelLayout[k]]]

\* a read that takes feat_std before feat_mean
fread_model_std_first(bytes) ==
    [member \in ModelMembers |->
        bytes[CHOOSE k \in 1..Len(ModelLayout) :
                ModelLayout[k] = (IF member = "feat_mean" THEN "feat_std"
                                  ELSE IF member = "feat_std" THEN "feat_mean"
                                  ELSE member)]]

\* fread(m, sizeof(Model), 1, f): the first sizeof(Model) words of the file
\* become the members in order
fread_model(bytes) ==
    [member \in ModelMembers |->
        bytes[CHOOSE k \in 1..Len(ModelLayout) : ModelLayout[k] = member]]

\* what is at the path before the save: nothing, an older snapshot, or an
\* older and longer file
StoreFiles ==
    {[exists |-> FALSE, bytes |-> <<>>],
     [exists |-> TRUE, bytes |-> object_bytes([member \in ModelMembers |-> 1])],
     [exists |-> TRUE,
      bytes |-> object_bytes([member \in ModelMembers |-> 1]) \o <<1>>]}

storeOther == <<ctx, applied, queries, features, stale_ref, tr, lk, ep, ld,
                orch, pr, ev, nn, fx, lastVars, keep_running>>

\* m: the Model saved.  m2: the Model loaded into.  io_failed: an fopen,
\* fwrite, ftell or fread of the run has failed.
InitStore ==
    /\ ctx = [fighters |-> <<>>, capacity |-> 0]
    /\ applied = <<>>
    /\ queries = <<>>
    /\ features = <<>>
    /\ stale_ref = FALSE
    /\ tr = Idle /\ lk = Idle /\ ep = Idle /\ ld = Idle /\ orch = Idle
    /\ pr = Idle /\ ev = Idle /\ nn = Idle /\ fx = Idle /\ LastIdle
    /\ keep_running = TRUE
    /\ \E m \in StoreModels :
       \E m2 \in {ZeroStoreModel, [member \in ModelMembers |-> MaxStoreValue]} :
       \E file \in StoreFiles :
          io = [pc |-> "save_fopen", m |-> m, m2 |-> m2, file |-> file,
                save_result |-> 0, load_result |-> 0, sz |-> 0,
                io_failed |-> FALSE]

\* f = fopen(path, "wb"); if (!f) return -1.  Opening truncates the file.
store_save_fopen ==
    /\ io.pc = "save_fopen"
    /\ \E opened \in BOOLEAN :
          io' = IF opened
                THEN [io EXCEPT !.pc = "save_fwrite",
                                !.file = [exists |-> TRUE, bytes |-> <<>>]]
                ELSE [io EXCEPT !.pc = "load_fopen", !.save_result = -1,
                                !.io_failed = TRUE]
    /\ UNCHANGED storeOther

\* fwrite(m, sizeof(Model), 1, f); fclose(f); return 0.  The result of fwrite
\* is not looked at: a short write leaves a prefix of the object in the file.
store_save_fwrite ==
    /\ io.pc = "save_fwrite"
    /\ \E written \in 0..Len(ModelLayout) :
          io' = [io EXCEPT !.pc = "load_fopen", !.save_result = 0,
                    !.file = [exists |-> TRUE,
                              bytes |-> SubSeq(object_bytes(io.m), 1, written)],
                    !.io_failed = written < Len(ModelLayout)]
    /\ UNCHANGED storeOther

\* f = fopen(path, "rb"); if (!f) return -1
store_load_fopen ==
    /\ io.pc = "load_fopen"
    /\ \E opened \in (IF io.file.exists THEN BOOLEAN ELSE {FALSE}) :
          io' = IF opened THEN [io EXCEPT !.pc = "load_size"]
                ELSE [io EXCEPT !.pc = "returned", !.load_result = -1,
                                !.io_failed = @ \/ io.file.exists]
    /\ UNCHANGED storeOther

\* sz = ftell(f) after fseek to the end (-1 when ftell fails);
\* if (sz < (long)sizeof(Model)) return -1
store_load_size ==
    /\ io.pc = "load_size"
    /\ \E sz \in {Len(io.file.bytes), -1} :
          io' = IF sz < Len(ModelLayout)
                THEN [io EXCEPT !.pc = "returned", !.sz = sz, !.load_result = -1,
                                !.io_failed = @ \/ sz = -1]
                ELSE [io EXCEPT !.pc = "load_fread", !.sz = sz]
    /\ UNCHANGED storeOther

\* if (fread(m, sizeof(Model), 1, f) != 1) return -1; return 0.  A failed
\* read may have stored a prefix of the file in *m.
store_load_fread ==
    /\ io.pc = "load_fread"
    /\ \E got \in 0..Len(ModelLayout) :
          io' = IF got = Len(ModelLayout)
                THEN [io EXCEPT !.pc = "returned", !.load_result = 0,
                                !.m2 = fread_model(io.file.bytes)]
                ELSE [io EXCEPT !.pc = "returned", !.load_result = -1,
                                !.io_failed = TRUE,
                                !.m2 = [member \in ModelMembers |->
                                    IF \E k \in 1..got : ModelLayout[k] = member
                                    THEN fread_model(io.file.bytes)[member]
                                    ELSE io.m2[member]]]
    /\ UNCHANGED storeOther

NextStore ==
    \/ store_save_fopen
    \/ store_save_fwrite
    \/ store_load_fopen
    \/ store_load_size
    \/ store_load_fread

SpecStore == InitStore /\ [][NextStore]_vars

\* C19: save_model(m, path) followed by load_model(m2, path), every file
\* operation of the two calls succeeding, returns 0 twice and leaves m2 equal
\* to m member by member: weights, biases, momentum velocities, feat_mean,
\* feat_std and num_trained_samples.
C19_SaveThenLoadRestoresModel ==
    (io.pc = "returned" /\ ~io.io_failed)
        => /\ io.save_result = 0
           /\ io.load_result = 0
           /\ \A member \in ModelMembers : io.m2[member] = io.m[member]

\* a Model with a non-zero feat_std restored over a different Model
C19_Witness ==
    /\ io.pc = "returned"
    /\ ~io.io_failed
    /\ io.m["feat_std"] = MaxStoreValue
    /\ io.m2 = io.m
    /\ io.load_result = 0

(***************************************************************************)
(* SpecLoop: the epoch loop of train by whole epochs, with a validation    *)
(* set large enough for the loop to reach max_epochs, and the statements   *)
(* after the loop.  SpecLoopFair adds that the running call takes its next *)
(* step.                                                                   *)
(***************************************************************************)
\* the larger of the two validation-set sizes explored
MaxLoopVal == 10

\* the loop condition without the epoch bound
epoch_loop_unbounded(epoch, flag) == flag

\* epoch < max_epochs && keep_running
epoch_loop_condition(epoch, flag) == epoch < max_epochs /\ flag

loopOther == <<ctxVars, tr, lk, ep, ld, orch, pr, ev, nn, io, fx, net, sh, infer>>

\* train after its buffers are filled: m->num_trained_samples is what
\* init_model left, best_val_acc = 0 (kept as the count of correct validation
\* predictions), no_improve = 0, epoch = 0
InitLoop ==
    /\ ctx = init_context
    /\ applied = <<>>
    /\ queries = 0
    /\ features = NoFeatures
    /\ stale_ref = FALSE
    /\ keep_running = TRUE
    /\ tr = Idle /\ lk = Idle /\ ep = Idle /\ ld = Idle /\ orch = Idle
    /\ pr = Idle /\ ev = Idle /\ nn = Idle /\ io = Idle /\ fx = Idle
    /\ net = Idle /\ sh = Idle /\ infer = Idle
    /\ \E train_base_count \in {4}, val_count \in {1, MaxLoopVal} :
          lp = [pc |-> "for", epoch |-> 0, epochs_run |-> 0,
                train_base_count |-> train_base_count,
                train_count |-> 2 * train_base_count, val_count |-> val_count,
                best_val_correct |-> 0, no_improve |-> 0, stop |-> "none",
                num_trained_samples |-> 0]

\* handle_sigint
loop_sigint ==
    /\ lp.pc \in {"for", "body"}
    /\ keep_running
    /\ keep_running' = FALSE
    /\ UNCHANGED <<lp, loopOther>>

\* the condition of the for statement
loop_condition ==
    /\ lp.pc = "for"
    /\ lp' = IF epoch_loop_condition(lp.epoch, keep_running)
             THEN [lp EXCEPT !.pc = "body"]
             ELSE [lp EXCEPT !.pc = "done",
                             !.stop = IF lp.epoch < max_epochs THEN "cancelled"
                                      ELSE "max"]
    /\ UNCHANGED <<loopOther, keep_running>>

\* one pass of the body: the shuffle loop (i from train_count - 1 down to 1),
\* the sample loop (i below train_count), the validation loop (i below
\* val_count) with val_correct predictions right, then the early-stopping
\* bookkeeping and epoch++ unless it breaks
loop_epoch ==
    /\ lp.pc = "body"
    /\ \E val_correct \in 0..lp.val_count :
       \E improved \in {val_correct > lp.best_val_correct} :
       \E no_improve \in {IF improved THEN 0 ELSE lp.no_improve + 1} :
       \E break \in {~improved /\ early_stop(no_improve)} :
          lp' = [lp EXCEPT
                    !.best_val_correct = IF improved THEN val_correct ELSE @,
                    !.no_improve = no_improve,
                    !.epochs_run = @ + 1,
                    !.epoch = IF break THEN @ ELSE @ + 1,
                    !.stop = IF break THEN "early" ELSE @,
                    !.pc = IF break THEN "done" ELSE "for"]
    /\ UNCHANGED <<loopOther, keep_running>>

\* m->num_trained_samples = train_base_count; the four free calls; return
loop_return ==
    /\ lp.pc = "done"
    /\ lp' = [lp EXCEPT !.pc = "returned",
                        !.num_trained_samples = lp.train_base_count]
    /\ UNCHANGED <<loopOther, keep_running>>

NextLoop == loop_sigint \/ loop_condition \/ loop_epoch \/ loop_return

SpecLoop == InitLoop /\ [][NextLoop]_vars

\* the call keeps running: a step of train that can be taken is taken
SpecLoopFair == SpecLoop /\ WF_vars(loop_condition \/ loop_epoch \/ loop_return)

\* the loop has not ended for any other reason than the three, and not later
\* than the first of them
LoopEndsAtFirstCondition ==
    /\ lp.epochs_run <= max_epochs
    /\ lp.pc \in {"for", "body"} =>
          /\ lp.stop = "none"
          /\ lp.no_improve < patience
          /\ lp.epochs_run = lp.epoch
    /\ lp.pc = "body" => lp.epoch < max_epochs
    /\ lp.pc \in {"done", "returned"} =>
          \/ lp.stop = "max" /\ lp.epochs_run = max_epochs /\ lp.no_improve < patience
          \/ /\ lp.stop = "cancelled" /\ ~keep_running
             /\ lp.epochs_run < max_epochs /\ lp.no_improve < patience
          \/ lp.stop = "early" /\ lp.no_improve = patience
    /\ lp.pc = "returned" => lp.num_trained_samples = lp.train_base_count

\* C21: the epoch loop of train runs at most 500 epochs and ends at the first
\* of 500 epochs completed, the cancellation flag found cleared at an epoch
\* boundary, and 50 consecutive epochs without a strict improvement of the
\* best validation accuracy; the call then sets num_trained_samples to the
\* training-base count and returns, and every call does return.
C21_TrainTerminates ==
    /\ [](lp.pc # "idle" => LoopEndsAtFirstCondition)
    /\ <>(lp.pc = "returned")

\* a call that returned after all 500 epochs, neither cancelled nor stopped early
C21_Witness ==
    /\ lp.pc = "returned"
    /\ lp.stop = "max"
    /\ lp.epochs_run = max_epochs
    /\ keep_running
    /\ lp.num_trained_samples = 4

(***************************************************************************)
(* SpecShuffle: the training and validation arrays of train through the    *)
(* epoch loop.  A row is told apart by one number (the mirror of row x is  *)
(* -x); forward and backward take the rows by pointer and only read them.  *)
(***************************************************************************)
\* the training-base counts of SpecShuffle (the arrays hold twice as many rows)
ShuffleBases == 0..2

\* largest val_count of SpecShuffle
MaxShuffleVal == 2

\* the count of completed epochs is kept up to this number
MaxShuffleEpochs == 2

\* the swap of the shuffle without the swap of the labels
swap_rows_only(arrays, i, j) ==
    [data   |-> [arrays.data EXCEPT ![i] = arrays.data[j], ![j] = arrays.data[i]],
     labels |-> arrays.labels]

\* memcpy data[i] <-> data[j] through tmp_data; labels[i] <-> labels[j]
\* through tmp_label
swap_rows(arrays, i, j) ==
    [data   |-> [arrays.data EXCEPT ![i] = arrays.data[j], ![j] = arrays.data[i]],
     labels |-> [arrays.labels EXCEPT ![i] = arrays.labels[j],
                                      ![j] = arrays.labels[i]]]

shuffleOther == <<ctxVars, tr, lk, ep, ld, orch, pr, ev, nn, io, fx, lp, net, infer,
                  keep_running>>

\* train at the top of the epoch loop: data and labels hold the training rows
\* followed by their mirrors; arrays0 and val0 keep what the arrays held then
InitShuffle ==
    /\ ctx = init_context
    /\ applied = <<>>
    /\ queries = 0
    /\ features = NoFeatures
    /\ stale_ref = FALSE
    /\ keep_running = TRUE
    /\ tr = Idle /\ lk = Idle /\ ep = Idle /\ ld = Idle /\ orch = Idle
    /\ pr = Idle /\ ev = Idle /\ nn = Idle /\ io = Idle /\ fx = Idle
    /\ lp = Idle /\ net = Idle /\ infer = Idle
    /\ \E train_base_count \in ShuffleBases, val_count \in 1..MaxShuffleVal :
       \E rows \in [1..train_base_count -> {0, 1}] :
       \E ys \in [1..train_base_count -> {0, 1}] :
       \E val_data \in [1..val_count -> {0, 1}] :
       \E arrays \in {[data |-> [k \in 1..(2 * train_base_count) |->
                                    IF k <= train_base_count THEN rows[k]
                                    ELSE -rows[k - train_base_count]],
                       labels |-> [k \in 1..(2 * train_base_count) |->
                                    IF k <= train_base_count THEN ys[k]
                                    ELSE 1 - ys[k - train_base_count]]]} :
       \E val \in {[data |-> val_data, labels |-> [k \in 1..val_count |-> k % 2]]} :
          sh = [pc |-> "for", arrays |-> arrays, arrays0 |-> arrays,
                val |-> val, val0 |-> val,
                train_count |-> 2 * train_base_count, val_count |-> val_count,
                i |-> 0, epochs |-> 0, read |-> <<>>]

\* the condition of the epoch loop: another epoch, or the loop is left (by the
\* condition or by the break after the validation pass)
shuffle_condition ==
    /\ sh.pc = "for"
    /\ \E enter \in BOOLEAN :
          sh' = IF enter THEN [sh EXCEPT !.pc = "shuffle", !.i = sh.train_count - 1]
                ELSE [sh EXCEPT !.pc = "after_loop"]
    /\ UNCHANGED shuffleOther

\* one iteration of the shuffle loop: j = rand() % (i + 1), the swap, i--
shuffle_swap ==
    /\ sh.pc = "shuffle"
    /\ \E j \in 0..(IF sh.i > 0 THEN sh.i ELSE 0) :
          sh' = IF sh.i > 0
                THEN [sh EXCEPT !.arrays = swap_rows(sh.arrays, sh.i + 1, j + 1),
                                !.i = sh.i - 1]
                ELSE [sh EXCEPT !.pc = "samples", !.i = 0]
    /\ UNCHANGED shuffleOther

\* one iteration of the sample loop: forward and backward read data[i] and
\* labels[i]
shuffle_train_sample ==
    /\ sh.pc = "samples"
    /\ sh' = IF sh.i < sh.train_count
             THEN [sh EXCEPT !.i = sh.i + 1,
                             !.read = <<sh.arrays.data[sh.i + 1],
                                        sh.arrays.labels[sh.i + 1]>>]
             ELSE [sh EXCEPT !.pc = "validate", !.i = 0]
    /\ UNCHANGED shuffleOther

\* one iteration of the validation loop: forward reads val_data[i], the
\* bookkeeping val_labels[i]
shuffle_validate_sample ==
    /\ sh.pc = "validate"
    /\ sh' = IF sh.i < sh.val_count
             THEN [sh EXCEPT !.i = sh.i + 1,
                             !.read = <<sh.val.data[sh.i + 1], sh.val.labels[sh.i + 1]>>]
             ELSE [sh EXCEPT !.pc = "for", !.i = 0,
                             !.epochs = IF @ < MaxShuffleEpochs THEN @ + 1 ELSE @]
    /\ UNCHANGED shuffleOther

NextShuffle ==
    \/ shuffle_condition
    \/ shuffle_swap
    \/ shuffle_train_sample
    \/ shuffle_validate_sample

SpecShuffle == InitShuffle /\ [][NextShuffle]_vars

\* how many slots of the arrays hold the row with the label
PairCount(arrays, row, label) ==
    Cardinality({k \in 1..Len(arrays.data) :
                    arrays.data[k] = row /\ arrays.labels[k] = label})

\* C22: after any number of epochs the (feature row, label) pairs of the
\* training arrays are, as a multiset, the ones built before the first epoch,
\* and the validation rows, their labels and their order are unchanged.
C22_ShuffleKeepsRowsWithLabels ==
    sh.pc # "idle" =>
        /\ Len(sh.arrays.data) = sh.train_count
        /\ Len(sh.arrays.labels) = sh.train_count
        /\ \A row \in {-1, 0, 1}, label \in {0, 1} :
              PairCount(sh.arrays, row, label) = PairCount(sh.arrays0, row, label)
        /\ sh.val = sh.val0

\* two epochs done and the arrays in another order than at the start
C22_Witness ==
    /\ sh.pc = "for"
    /\ sh.epochs >= 2
    /\ sh.train_count = 4
    /\ sh.arrays.data # sh.arrays0.data
    /\ sh.arrays.labels # sh.arrays0.labels

(***************************************************************************)
(* SpecNet: the members of the Model through the epoch loop of train,      *)
(* evaluate_model and predict_interactive.  What is followed is which      *)
(* members each statement assigns: the content of a member is a number     *)
(* below ContentMod, and a statement that computes a member stores a       *)
(* content computed from the ones it reads.                                *)
(***************************************************************************)
\* the number of contents a member of the Model is told apart by
ContentMod == 3

\* the count of completed epochs is kept up to this number
MaxNetEpochs == 2

\* a forward that keeps its last sum in the output bias
forward_members_and_bias == {"h1", "h2", "output", "b3"}

\* the members forward assigns: m->h1[j], m->h2[j], m->output[k]
forward_members == {"h1", "h2", "output"}

\* the members backward assigns: the velocities and, from them, the weights
\* and biases of the three layers
backward_members ==
    {"v_w3", "w3", "v_b3", "b3", "v_w2", "w2", "v_b2", "b2", "v_w1", "w1", "v_b1", "b1"}

\* the parameters of a Model: everything but the cached activations
parameter_members == ModelMembers \ {"h1", "h2", "output"}

parameters(m) == [member \in parameter_members |-> m[member]]

\* the three activations of forward: each layer from its input and its own
\* weights and bias
forward_contents(m, in) ==
    [h1     |-> (in + m["w1"] + m["b1"]) % ContentMod,
     h2     |-> (in + 2 * m["w1"] + m["b1"] + m["w2"] + m["b2"]) % ContentMod,
     output |-> (in + m["w1"] + 2 * m["b1"] + m["w2"] + m["b2"] + m["w3"] + m["b3"] + 1)
                    % ContentMod]

\* void forward(Model *m, long double *in): the Model after the call
forward_on(m, in) ==
    [member \in ModelMembers |->
        IF member \in forward_members
        THEN forward_contents(m, in)[IF member \in {"h1", "h2"} THEN member ELSE "output"]
        ELSE m[member]]

\* void backward(...): the Model after the call; every velocity takes the
\* gradient term of this sample and every weight and bias its velocity
backward_on(m, in, target) ==
    [member \in ModelMembers |->
        IF member \in backward_members
        THEN (m[member] + 1 + in + target + m["output"]) % ContentMod
        ELSE m[member]]

\* normalize_features(features, m, normalized): the normalized row; the Model
\* is only read
normalize_contents(row, m) == (row + m["feat_mean"] + m["feat_std"]) % ContentMod

netOther == <<ctxVars, tr, lk, ep, ld, orch, pr, ev, nn, io, fx, lp, sh, infer,
              keep_running>>

\* the Models train is entered with after compute_normalization: init_model's
\* (weights drawn, the rest zero) with the statistics stored
NetModels ==
    {[member \in ModelMembers |->
        IF member \in {"w1", "w2", "w3"} THEN w
        ELSE IF member \in {"feat_mean", "feat_std"} THEN 1 ELSE 0] :
            w \in 1..(ContentMod - 1)}

\* train at the top of the epoch loop.  m0: the Model then.  source: the
\* Model the last prediction copied into active_model.
InitNet ==
    /\ ctx = init_context
    /\ applied = <<>>
    /\ queries = 0
    /\ features = NoFeatures
    /\ stale_ref = FALSE
    /\ keep_running = TRUE
    /\ tr = Idle /\ lk = Idle /\ ep = Idle /\ ld = Idle /\ orch = Idle
    /\ pr = Idle /\ ev = Idle /\ nn = Idle /\ io = Idle /\ fx = Idle
    /\ lp = Idle /\ sh = Idle /\ infer = Idle
    /\ \E train_base_count \in 0..1, val_count \in 1..2 :
       \E m \in NetModels :
          net = [pc |-> "for", m |-> m, m0 |-> m,
                 train_base_count |-> train_base_count,
                 train_count |-> 2 * train_base_count, val_count |-> val_count,
                 i |-> 0, epochs |-> 0, active_model |-> m, source |-> m,
                 inferred |-> FALSE]

\* the condition of the epoch loop, and the shuffle of the epoch that starts
\* (it assigns data and labels only)
net_condition ==
    /\ net.pc = "for"
    /\ \E enter \in BOOLEAN :
          net' = IF enter THEN [net EXCEPT !.pc = "samples", !.i = 0]
                 ELSE [net EXCEPT !.pc = "after_loop"]
    /\ UNCHANGED netOther

\* one iteration of the sample loop: forward(m, data[i]); backward(m, data[i],
\* labels[i], lr, momentum), on whichever row the shuffle left at i
net_train_sample ==
    /\ net.pc = "samples"
    /\ \E row \in 0..(ContentMod - 1), target \in {0, 1} :
          net' = IF net.i < net.train_count
                 THEN [net EXCEPT !.i = net.i + 1,
                           !.m = backward_on(forward_on(net.m, row), row, target)]
                 ELSE [net EXCEPT !.pc = "validate", !.i = 0]
    /\ UNCHANGED netOther

\* one iteration of the validation loop: forward(m, val_data[i])
net_validate_sample ==
    /\ net.pc = "validate"
    /\ \E row \in 0..(ContentMod - 1) :
          net' = IF net.i < net.val_count
                 THEN [net EXCEPT !.i = net.i + 1, !.m = forward_on(net.m, row)]
                 ELSE [net EXCEPT !.pc = "for", !.i = 0,
                                  !.epochs = IF @ < MaxNetEpochs THEN @ + 1 ELSE @]
    /\ UNCHANGED netOther

\* m->num_trained_samples = train_base_count; the Model goes to its caller
net_after_loop ==
    /\ net.pc = "after_loop"
    /\ net' = [net EXCEPT !.pc = "inference",
                  !.m = [net.m EXCEPT !["num_trained_samples"] =
                                            net.train_base_count % ContentMod]]
    /\ UNCHANGED netOther

\* evaluate_model on one row: normalize_features(raw_features[i], m,
\* normalized); forward(m, normalized)
net_evaluate ==
    /\ net.pc = "inference"
    /\ \E row \in 0..(ContentMod - 1) :
          net' = [net EXCEPT !.inferred = TRUE,
                    !.m = forward_on(net.m, normalize_contents(row, net.m))]
    /\ UNCHANGED netOther

\* predict_interactive on one query: active_model = *m, or the class model
\* load_model gave; normalize_features(features, &active_model, normalized);
\* forward(&active_model, normalized)
net_predict ==
    /\ net.pc = "inference"
    /\ \E row \in 0..(ContentMod - 1) :
       \E source \in {net.m} \cup NetModels :
          net' = [net EXCEPT !.inferred = TRUE, !.source = source,
                    !.active_model = forward_on(source, normalize_contents(row, source))]
    /\ UNCHANGED netOther

NextNet ==
    \/ net_condition
    \/ net_train_sample
    \/ net_validate_sample
    \/ net_after_loop
    \/ net_evaluate
    \/ net_predict

SpecNet == InitNet /\ [][NextNet]_vars

\* C23: forward assigns only h1, h2 and output and normalize_features assigns
\* nothing in the Model, so evaluation and prediction leave every weight,
\* bias, velocity, feat_mean, feat_std and num_trained_samples as they were
\* (the prediction works on a copy whose parameters are those of the Model it
\* was copied from); a weight, bias or velocity changes only in a step of the
\* sample loop of train, where backward is called.
C23_InferenceLeavesParametersUnchanged ==
    [][/\ net.pc \in {"validate", "inference"} =>
              /\ parameters(net'.m) = parameters(net.m)
              /\ parameters(net'.active_model) = parameters(net'.source)
       /\ (\E member \in backward_members : net'.m[member] # net.m[member]) =>
              (net.pc = "samples" /\ net.i < net.train_count)]_vars

\* a trained Model (its weights are not the initial ones) after an inference
\* that changed the cached activations of the copy
C23_Witness ==
    /\ net.pc = "inference"
    /\ net.inferred
    /\ net.m["w1"] # net.m0["w1"]
    /\ net.epochs >= 1
    /\ net.active_model["output"] # net.source["output"]
    /\ parameters(net.active_model) = parameters(net.source)

(***************************************************************************)
(* SpecInfer: one call of infer_latest_weight_class on a history.          *)
(***************************************************************************)
\* the longest history of SpecInfer
MaxInferFights == 3

\* the days of the one-character calendar in SpecInfer
InferDays == 0..2

NameC == <<67, 121>>      \* "Cy"

\* the observations of SpecInfer: day 0 is a date no pattern parses
InferFights ==
    {Fight(Date(day), class, p[1], p[2], 1) :
        day \in InferDays, class \in {ClassL, ClassF},
        p \in {<<NameC, NameA>>, <<NameB, NameC>>}}

RECURSIVE InferHistories(_)
InferHistories(n) ==
    IF n = 0 THEN {<<>>}
    ELSE InferHistories(n - 1) \cup
         {Append(h, f) : h \in {g \in InferHistories(n - 1) : Len(g) = n - 1},
                         f \in InferFights}

inferOther == <<ctxVars, tr, lk, ep, ld, orch, pr, ev, nn, io, fx, lp, net, sh,
                keep_running>>

\* the arguments of the call: the names are the ones typed, in any case
InitInfer ==
    /\ ctx = init_context
    /\ applied = <<>>
    /\ queries = 0
    /\ features = NoFeatures
    /\ stale_ref = FALSE
    /\ keep_running = TRUE
    /\ tr = Idle /\ lk = Idle /\ ep = Idle /\ ld = Idle /\ orch = Idle
    /\ pr = Idle /\ ev = Idle /\ nn = Idle /\ io = Idle /\ fx = Idle
    /\ lp = Idle /\ net = Idle /\ sh = Idle
    /\ \E fights \in InferHistories(MaxInferFights) :
       \E names \in {<<NameALower, NameB>>, <<NameB, NameA>>, <<NameC, NameC>>} :
          infer = [pc |-> "call", fights |-> fights, fighter1 |-> names[1],
                   fighter2 |-> names[2], status |-> 0, out_class |-> <<>>]

\* the call: the loop over the history and the choice after it
infer_call ==
    /\ infer.pc = "call"
    /\ \E r \in {infer_latest_weight_class(infer.fights, infer.fighter1, infer.fighter2)} :
          infer' = [infer EXCEPT !.pc = "returned", !.status = r.status,
                                 !.out_class = r.out_class]
    /\ UNCHANGED inferOther

\* the caller takes the class, or asks for one after status 0
infer_done ==
    /\ infer.pc = "returned"
    /\ infer' = [infer EXCEPT !.pc = IF infer.status = 0 THEN "ask" ELSE "selected"]
    /\ UNCHANGED inferOther

NextInfer ==
    \/ infer_call
    \/ infer_done

SpecInfer == InitInfer /\ [][NextInfer]_vars

\* the dated observations of the history that `name` took part in
dated_observations(fights, name) ==
    {i \in 1..Len(fights) :
        /\ event_date_to_key(fights[i].event_date) > 0
        /\ \/ name_equals_ci(fights[i].fighter1, name)
           \/ name_equals_ci(fights[i].fighter2, name)}

\* the date of the most recent dated observation of `name`
latest_date(fights, name) ==
    Max({event_date_to_key(fights[i].event_date) : i \in dated_observations(fights, name)})

\* the segment of the most recent dated observation of `name` (of the one
\* listed first, if several have that date)
latest_segment(fights, name) ==
    fights[Min({i \in dated_observations(fights, name) :
                  event_date_to_key(fights[i].event_date) = latest_date(fights, name)})]
        .weight_class

\* C24: infer_latest_weight_class reports failure (0) exactly when neither
\* entity has a dated observation; otherwise the class it gives is the class
\* of an observation of one of the two on the most recent date either has:
\* the common one when the latest classes of the two agree, the one of the
\* entity whose latest observation is more recent when they differ (the first
\* entity's on equal dates), and the one entity's when only one has dated
\* observations.
C24_InfersMostRecentSegment ==
    infer.pc = "returned" =>
        LET fights == infer.fights
            d1 == dated_observations(fights, infer.fighter1)
            d2 == dated_observations(fights, infer.fighter2)
        IN  IF d1 = {} /\ d2 = {} THEN infer.status = 0
            ELSE /\ infer.status # 0
                 /\ \E i \in d1 \cup d2 :
                       /\ fights[i].weight_class = infer.out_class
                       /\ \A k \in d1 \cup d2 :
                             event_date_to_key(fights[k].event_date)
                                 <= event_date_to_key(fights[i].event_date)
                 /\ IF d1 # {} /\ d2 # {}
                    THEN IF latest_segment(fights, infer.fighter1)
                              = latest_segment(fights, infer.fighter2)
                         THEN infer.out_class = latest_segment(fights, infer.fighter1)
                         ELSE infer.out_class =
                                 IF latest_date(fights, infer.fighter1)
                                        >= latest_date(fights, infer.fighter2)
                                 THEN latest_segment(fights, infer.fighter1)
                                 ELSE latest_segment(fights, infer.fighter2)
                    ELSE infer.out_class =
                            IF d1 # {} THEN latest_segment(fights, infer.fighter1)
                            ELSE latest_segment(fights, infer.fighter2)

\* both entities have dated observations, their latest classes differ, and
\* the second entity's is the more recent: its class is the one returned,
\* though an older observation of the first entity is listed after it
C24_Witness ==
    /\ infer.pc = "returned"
    /\ infer.status = 2
    /\ dated_observations(infer.fights, infer.fighter1) # {}
    /\ dated_observations(infer.fights, infer.fighter2) # {}
    /\ latest_date(infer.fights, infer.fighter1) < latest_date(infer.fights, infer.fighter2)
    /\ infer.out_class = latest_segment(infer.fights, infer.fighter2)
    /\ infer.out_class # latest_segment(infer.fights, infer.fighter1)
    /\ infer.fighter1 = NameALower
    /\ Max(dated_observations(infer.fights, infer.fighter1))
          > Max(dated_observations(infer.fights, infer.fighter2))

\* C25: in update_context_with_result and compute_features the reference to
\* the first entity's record is never used after the get-or-create call for
\* the second entity has reallocated the record store.
C25_FirstReferenceStaysValid == stale_ref = FALSE

\* C26: every model train_models_by_class has written to its model path has
\* completed at least one epoch of train: none is written that entered the
\* epoch loop with keep_running cleared and so ran no epoch.
C26_PersistedModelsRanAnEpoch ==
    \A k \in 1..Len(orch.saved) : orch.saved[k].model # "no_epoch"

\* C27: whatever num_samples main passes, a call of train that gets as far as
\* compute_normalization and the epoch loop has at least one training-base
\* sample: compute_normalization is not called with count 0 and the epoch
\* loop does not run over an empty training set.
C27_TrainProceedsWithTrainingBase ==
    tr.pc \in {"normalized", "epochs"} =>
        /\ tr.train_base_count >= 1
        /\ tr.m.norm_count > 0

(***************************************************************************)
(* SpecHistory: outcomes recorded and queries computed on one Context      *)
(* Tracker, among three entities of one weight class.                      *)
(***************************************************************************)
\* the calls of one behaviour of SpecHistory
MaxHistoryCalls == 3

HistoryFights ==
    {Fight(<<49>>, ClassL, p[1], p[2], label) :
        p \in {q \in {NameA, NameB, NameC} \X {NameA, NameB, NameC} : q[1] # q[2]},
        label \in {0, 1}}

historyOther == <<tr, lk, ep, ld, orch, pr, ev, nn, io, fx, lp, net, sh, infer,
                  keep_running>>

InitHistory ==
    /\ ctx \in {BackgroundContext(n) : n \in {0, Background}}
    /\ applied = <<>>
    /\ queries = 0
    /\ features = NoFeatures
    /\ stale_ref = FALSE
    /\ keep_running = TRUE
    /\ tr = Idle /\ lk = Idle /\ ep = Idle /\ ld = Idle /\ orch = Idle
    /\ pr = Idle /\ ev = Idle /\ nn = Idle /\ io = Idle /\ fx = Idle
    /\ lp = Idle /\ net = Idle /\ sh = Idle /\ infer = Idle

\* update_context_with_result(&ctx, &fight)
history_update ==
    /\ Len(applied) + queries < MaxHistoryCalls
    /\ \E fight \in HistoryFights, moved \in realloc_moves(ctx) :
          \E u \in {update_context_with_result(ctx, fight, moved)} :
              /\ ctx' = u.ctx
              /\ stale_ref' = u.r1_dangling
              /\ applied' = Append(applied, fight)
    /\ UNCHANGED <<queries, features, historyOther>>

\* compute_features(&fight, features, &ctx)
history_query ==
    /\ Len(applied) + queries < MaxHistoryCalls
    /\ \E fight \in HistoryFights,
          moved \in realloc_moves(ctx), junk \in stale_reads(ctx) :
          \E q \in {compute_features(fight, ctx, TRUE, moved, junk)} :
              /\ ctx' = q.ctx
              /\ features' = q.features
              /\ stale_ref' = q.r1_dangling
    /\ queries' = queries + 1
    /\ UNCHANGED <<applied, historyOther>>

NextHistory ==
    \/ history_update
    \/ history_query

SpecHistory == InitHistory /\ [][NextHistory]_vars

\* the tracker without the records that hold no outcome (the ones queries
\* added): the same recorded history in a store that never held them
recorded_history(c) ==
    LET kept == SelectSeq(c.fighters, LAMBDA r : r.total # 0)
        pairs == SelectSeq(c.h2h, LAMBDA r : r.total # 0)
        count == c.fighter_count - (Len(c.fighters) - Len(kept))
    IN  [fighters |-> kept, fighter_count |-> count, fighter_cap |-> CapFor(count, 0),
         h2h |-> pairs, h2h_count |-> Len(pairs), h2h_cap |-> CapFor(Len(pairs), 0)]

\* the feature vectors compute_features can give for `fight` on tracker c
query_features(fight, c) ==
    {compute_features(fight, c, TRUE, moved, junk).features :
        moved \in realloc_moves(c), junk \in stale_reads(c)}

\* C28: a call of compute_features leaves wins, losses and total of every
\* existing FighterRecord and wins_a, wins_b and total of every existing
\* HeadToHeadRecord as they were and adds only records whose counts are zero;
\* and the feature vector it gives is one the same query gives on the tracker
\* without the zero-count records earlier queries added.
C28_QueriesLeaveHistoryAndLaterFeatures ==
    [][queries' = queries + 1 =>
          /\ \A i \in 1..Len(ctx.fighters) : ctx'.fighters[i] = ctx.fighters[i]
          /\ \A i \in 1..Len(ctx.h2h) : ctx'.h2h[i] = ctx.h2h[i]
          /\ \A i \in (Len(ctx.fighters) + 1)..Len(ctx'.fighters) :
                /\ ctx'.fighters[i].wins = 0
                /\ ctx'.fighters[i].losses = 0
                /\ ctx'.fighters[i].total = 0
          /\ \A i \in (Len(ctx.h2h) + 1)..Len(ctx'.h2h) :
                /\ ctx'.h2h[i].wins_a = 0
                /\ ctx'.h2h[i].wins_b = 0
                /\ ctx'.h2h[i].total = 0
          /\ \E fight \in HistoryFights :
                /\ ctx' = compute_features(fight, ctx, TRUE, FALSE, NullRecord).ctx
                /\ features' \in query_features(fight, recorded_history(ctx))]_vars

\* the same matchup recorded in the opposite order: names, statistic tuples
\* and label exchanged
swap_entities(fight) ==
    [fight EXCEPT !.fighter1 = fight.fighter2, !.fighter2 = fight.fighter1,
                  !.s1 = fight.s2, !.s2 = fight.s1, !.label = 1 - fight.label]

\* -x of a feature vector; the weighted-score delta is kept as a pair of terms
negate_features(vec) ==
    [j \in 1..20 |-> IF j = 18 THEN <<vec[j][2], vec[j][1]>> ELSE RatNeg(vec[j])]

\* C29: on every Context Tracker state and for every observation,
\* compute_features of the observation with the two entities exchanged gives
\* the negation of compute_features of the observation, in all 20 dimensions.
C29_FeaturesAntisymmetric ==
    \A fight \in HistoryFights :
        \A x \in query_features(fight, ctx),
           y \in query_features(swap_entities(fight), ctx) :
              y = negate_features(x)

\* predict_interactive before its prompt loop: init_context(&pred_ctx), then
\* update_context_with_result for every observation of the history
RECURSIVE pred_ctx_after(_, _)
pred_ctx_after(c, fights) ==
    IF fights = <<>> THEN c
    ELSE CHOOSE r \in {pred_ctx_after(updated, rest) :
                          updated \in {update_context_with_result(c, Head(fights), FALSE).ctx},
                          rest \in {Tail(fights)}} : TRUE

pred_ctx(fights) == pred_ctx_after(init_context, fights)

\* C30: when both typed names have passed the history check and the query
\* has reached compute_features, each name resolves in pred_ctx to the record
\* that holds the entity's observations: an entity the history check found
\* observations of in the weight class of the query is not given a record
\* without observations.
C30_AcceptedNamesResolveToTheirRecords ==
    (pr.pc = "forward" /\ ~fighter_stats_identical(pr.q.s1, pr.q.s2)) =>
        \A name \in {pr.q.fighter1, pr.q.fighter2} :
            LET fights == PredictHistory(pr.dates_parse)
                observed == \E k \in 1..Len(fights) :
                               /\ strcmp(fights[k].weight_class, pr.q.weight_class) = 0
                               /\ \/ name_equals_ci(fights[k].fighter1, name)
                                  \/ name_equals_ci(fights[k].fighter2, name)
                r == get_or_add_fighter(pred_ctx(fights), name, pr.q.weight_class)
            IN  observed => r.ctx.fighters[r.idx].total > 0

====
